---- MODULE Spec2Model ----
(***************************************************************************)
(* mini-coding-agent: the tool runtime (tools.js), the agent loop          *)
(* (agent.js) and the skill selection (skill-match.js) as state machines.  *)
(*                                                                         *)
(* A string is a sequence of one-character strings; a message of the       *)
(* program (an error text, the step-limit notice) is a sequence whose      *)
(* fixed parts are written as one element each.  Paths are POSIX paths     *)
(* (path.sep = "/").                                                       *)
(***************************************************************************)
EXTENDS Integers, Sequences, FiniteSets, TLC

VARIABLES
    \* ---- tool runtime (tools.js) ----
    files,        \* the filesystem: absolute path of a regular file -> its content
    lastCall,     \* the last executeTool call: its name, input, outcome and accesses
    readBack,     \* the outcome of read_file on the path just written
    commands,     \* what the shell commands of the run may do when they are run
    \* ---- agent loop (agent.js, runAgentOnce) ----
    maxSteps,     \* argument maxSteps
    enableTools,  \* argument enableTools
    pc,           \* position of runAgentOnce
    step,         \* the loop variable
    messages,     \* the conversation
    toolUses,     \* tool_use blocks of the response being handled
    results,      \* tool results gathered so far in this round
    running,      \* positions in toolUses of the executeTool calls that are pending
    ret,          \* the value runAgentOnce returned (pc = "done")
    error,        \* the error runAgentOnce failed with (pc = "failed")
    llmCalls,     \* history: backend calls issued by runAgentOnce
    llmFailures,  \* history: backend calls that failed
    toolExecs,    \* history: executeTool calls that ended
    toolThrows,   \* history: executeTool calls that threw
    toolRounds,   \* history: tool-execution rounds completed
    atFailure,    \* history: <<llmCalls, toolExecs, error thrown>> at the failed backend call
    selectedSkills, \* argument selectedSkills
    allowedTools, \* the argument of restrictTools
    toolsForRun,  \* what restrictTools returned: the names of the tools, in order
    requests,     \* history: the requests sent to the backend
    \* ---- skill selection (skill-match.js, pickSkillsForPrompt) ----
    prompt,       \* argument prompt
    skills,       \* argument skills (the catalog)
    apiKey,       \* argument apiKey: TRUE when a key is given
    spc,          \* position of pickSkillsForPrompt
    match,        \* the value pickSkillsForPrompt returned (spc = "returned")
    routerCalls,  \* history: backend calls issued by routeWithClaude
    routerReply,  \* history: what the backend answered to the router
    \* ---- the catalog (cli.js, runOnePrompt) ----
    localSkills,    \* the skills discovered in the skills directory
    externalSkills, \* the skills discovered in the external skills directory
    ranking,        \* the value rankSkillsForPrompt returned
    \* ---- the command line and the external skills (cli.js, external-skills.js) ----
    cli,            \* the --max-steps argument and the maxSteps main computes from it
    sync            \* syncExternalSkills: the repos, the external directory, the sync state

toolVars == <<files, lastCall, readBack, commands>>
agentVars == <<maxSteps, enableTools, pc, step, messages, toolUses, results, running,
               ret, error, llmCalls, llmFailures, toolExecs, toolThrows, toolRounds,
               atFailure>>
cliVars == <<cli, sync>>
catalogVars == <<localSkills, externalSkills, ranking, cliVars>>
selVars == <<prompt, skills, apiKey, spc, match, routerCalls, routerReply, catalogVars>>
setupVars == <<selectedSkills, allowedTools, toolsForRun>>
vars == <<toolVars, agentVars, selVars, setupVars, requests>>

(***************************************************************************)
(* Bounds of the model.                                                    *)
(***************************************************************************)
\* longest input path handed to executeTool by the tool driver
MaxPathLen == 4
\* largest maxSteps the agent loop is run with
MaxStepsBound == 2
\* longest allowed list restrictTools is called with
MaxAllowed == 2

(***************************************************************************)
(* Strings.                                                                *)
(***************************************************************************)
\* The element of a one-element set.  A value that is read several times is
\* bound as the element of a set, The({F(v) : v \in {e}}), so that e is
\* computed once.
The(S) == CHOOSE x \in S : TRUE

StartsWith(s, p) == Len(p) <= Len(s) /\ SubSeq(s, 1, Len(p)) = p

EndsWith(s, p) == Len(p) <= Len(s) /\ SubSeq(s, Len(s) - Len(p) + 1, Len(s)) = p

RECURSIVE SplitFrom(_, _, _, _, _)
SplitFrom(s, sep, i, cur, acc) ==
    IF i > Len(s) THEN Append(acc, cur)
    ELSE IF s[i] = sep THEN SplitFrom(s, sep, i + 1, <<>>, Append(acc, cur))
    ELSE SplitFrom(s, sep, i + 1, Append(cur, s[i]), acc)

\* s.split(sep) for a one-character separator
Split(s, sep) == The({SplitFrom(v, sep, 1, <<>>, <<>>) : v \in {s}})

RECURSIVE JoinFrom(_, _, _)
JoinFrom(parts, sep, i) ==
    IF i > Len(parts) THEN <<>>
    ELSE IF i = Len(parts) THEN parts[i]
    ELSE parts[i] \o sep \o JoinFrom(parts, sep, i + 1)

\* parts.join(sep)
Join(parts, sep) == The({JoinFrom(v, sep, 1) : v \in {parts}})

\* strings of at most n characters over the alphabet A
StringsUpTo(A, n) == UNION {[1..k -> A] : k \in 0..n}

LowerLetters ==
    {"a", "b", "c", "d", "e", "f", "g", "h", "i", "j", "k", "l", "m", "n", "o", "p",
     "q", "r", "s", "t", "u", "v", "w", "x", "y", "z"}

UpperLetters ==
    <<"A", "B", "C", "D", "E", "F", "G", "H", "I", "J", "K", "L", "M", "N", "O", "P",
      "Q", "R", "S", "T", "U", "V", "W", "X", "Y", "Z">>

LowerOfUpper ==
    <<"a", "b", "c", "d", "e", "f", "g", "h", "i", "j", "k", "l", "m", "n", "o", "p",
      "q", "r", "s", "t", "u", "v", "w", "x", "y", "z">>

Digits == {"0", "1", "2", "3", "4", "5", "6", "7", "8", "9"}

\* one character of s.toLowerCase()
LowerChar(c) ==
    IF \E i \in 1..Len(UpperLetters) : UpperLetters[i] = c
    THEN LowerOfUpper[CHOOSE i \in 1..Len(UpperLetters) : UpperLetters[i] = c]
    ELSE c

\* s.toLowerCase()
ToLowerCase(s) == [i \in 1..Len(s) |-> LowerChar(s[i])]

\* the character class [a-z0-9]
IsAlnum(c) == c \in LowerLetters \cup Digits

\* the positions of s, in ascending order
Positions(s) == [i \in 1..Len(s) |-> i]

\* s.replace(/[^a-z0-9]+/g, " "): of each run of other characters only the
\* first position stays, as a blank
ReplaceNonAlnumRuns(s) ==
    LET at == SelectSeq(Positions(s),
                        LAMBDA i : IsAlnum(s[i]) \/ i = 1 \/ IsAlnum(s[i - 1]))
    IN  [k \in 1..Len(at) |-> IF IsAlnum(s[at[k]]) THEN s[at[k]] ELSE " "]

\* s.split(/\s+/).filter(Boolean), for a string whose only white space is " "
SplitWhitespace(s) ==
    LET at == SelectSeq(Positions(s),
                        LAMBDA i : s[i] # " " /\ (i = 1 \/ s[i - 1] = " "))
        End(i) == CHOOSE j \in i..Len(s) :
                      /\ \A k \in i..j : s[k] # " "
                      /\ (j = Len(s) \/ s[j + 1] = " ")
    IN  [k \in 1..Len(at) |-> SubSeq(s, at[k], End(at[k]))]

\* s.trim(), for a string whose only white space is " "
Trim(s) ==
    LET keep == {i \in 1..Len(s) : s[i] # " "}
    IN  IF keep = {} THEN <<>>
        ELSE SubSeq(s, CHOOSE i \in keep : \A j \in keep : i <= j,
                       CHOOSE i \in keep : \A j \in keep : i >= j)

\* the elements of a sequence, as a set
Range(q) == {q[i] : i \in 1..Len(q)}

\* s.includes(sub)
Includes(s, sub) ==
    \E i \in 0..(Len(s) - Len(sub)) : SubSeq(s, i + 1, i + Len(sub)) = sub

(***************************************************************************)
(* node:path (POSIX).                                                      *)
(***************************************************************************)
SEP == "/"

\* the stack of segments with its last one removed, if it has one
Pop(stack) == IF Len(stack) = 0 THEN <<>> ELSE SubSeq(stack, 1, Len(stack) - 1)

RECURSIVE NormSegs(_, _, _)
NormSegs(segs, i, stack) ==
    IF i > Len(segs) THEN stack
    ELSE IF segs[i] = <<>> \/ segs[i] = <<".">> THEN NormSegs(segs, i + 1, stack)
    ELSE IF segs[i] = <<".", ".">>
         THEN The({NormSegs(segs, i + 1, Pop(v)) : v \in {stack}})
    ELSE NormSegs(segs, i + 1, Append(stack, segs[i]))

\* the normalized segments of an absolute path
Segments(abs) == The({NormSegs(segs, 1, <<>>) : segs \in {Split(abs, SEP)}})

\* an absolute path normalized: no ".", "..", empty segment or trailing separator
NormalizeAbs(abs) == <<SEP>> \o Join(Segments(abs), <<SEP>>)

\* path.resolve(rootAbs, targetPath), rootAbs absolute
PathResolve(rootAbs, targetPath) ==
    IF targetPath # <<>> /\ targetPath[1] = SEP
    THEN NormalizeAbs(targetPath)
    ELSE NormalizeAbs(rootAbs \o <<SEP>> \o targetPath)

\* path.dirname of a normalized absolute path
Dirname(p) ==
    The({IF segs = <<>> THEN <<SEP>>
         ELSE <<SEP>> \o Join(SubSeq(segs, 1, Len(segs) - 1), <<SEP>>)
           : segs \in {Segments(p)}})

(***************************************************************************)
(* tools.js.                                                               *)
(***************************************************************************)
\* rootDirAbs: process.cwd() of the run
RootDirAbs == <<"/", "w">>

\* an input field that is absent (undefined)
Undefined == <<"undefined">>

EscapeMessage(targetPath) == <<"Path escapes workspace root: ">> \o targetPath

\* ensureInsideRoot with the separator left out of the prefix test
EnsureInsideRootNoSep(rootAbs, targetPath) ==
    IF targetPath = Undefined
    THEN [ok |-> FALSE, resolved |-> <<>>, err |-> <<"TypeError: path">>]
    ELSE The({IF resolved = rootAbs
              THEN [ok |-> TRUE, resolved |-> resolved, err |-> <<>>]
              ELSE IF ~StartsWith(resolved, rootAbs)
              THEN [ok |-> FALSE, resolved |-> resolved, err |-> EscapeMessage(targetPath)]
              ELSE [ok |-> TRUE, resolved |-> resolved, err |-> <<>>]
                : resolved \in {PathResolve(rootAbs, targetPath)}})

\* ensureInsideRoot: the resolved path, or the error thrown.  path.resolve
\* throws a TypeError on an argument that is not a string.
EnsureInsideRoot(rootAbs, targetPath) ==
    IF targetPath = Undefined
    THEN [ok |-> FALSE, resolved |-> <<>>, err |-> <<"TypeError: path">>]
    ELSE The({IF resolved = rootAbs
              THEN [ok |-> TRUE, resolved |-> resolved, err |-> <<>>]
              ELSE IF ~StartsWith(resolved, root)
              THEN [ok |-> FALSE, resolved |-> resolved, err |-> EscapeMessage(targetPath)]
              ELSE [ok |-> TRUE, resolved |-> resolved, err |-> <<>>]
                : resolved \in {PathResolve(rootAbs, targetPath)},
                  root \in {IF EndsWith(rootAbs, <<SEP>>) THEN rootAbs
                            ELSE rootAbs \o <<SEP>>}})

TruncateMax == 200000

\* truncate(s, max = 200_000)
Truncate(s) ==
    IF Len(s) <= TruncateMax THEN s
    ELSE SubSeq(s, 1, TruncateMax) \o <<"\n\n[truncated to 200000 chars]\n">>

(***************************************************************************)
(* The filesystem the tool runtime works on: node:fs/promises, fast-glob   *)
(* and child_process.exec, as far as executeTool uses them.  A directory   *)
(* exists when it holds a file, or is the workspace root or above it.      *)
(***************************************************************************)
IsPrefix(a, b) == Len(a) <= Len(b) /\ SubSeq(b, 1, Len(a)) = a

\* directory d is a proper ancestor of path f
IsAncestor(d, f) ==
    \E D \in {Segments(d)}, F \in {Segments(f)} : Len(D) < Len(F) /\ IsPrefix(D, F)

IsFile(fs, p) == p \in DOMAIN fs

IsDir(fs, p) ==
    \/ p = RootDirAbs
    \/ IsAncestor(p, RootDirAbs)
    \/ \E f \in DOMAIN fs : IsAncestor(p, f)

\* the paths below directory d, as fs.readdir / fast-glob see them
Below(fs, d) == {f \in DOMAIN fs \cup {RootDirAbs} : IsAncestor(d, f)}

\* the entries of directory d: [name, isDirectory]
DirEntries(fs, d) ==
    UNION {{[name |-> F[n + 1], isDirectory |-> Len(F) > n + 1 \/ f \notin DOMAIN fs]
              : F \in {Segments(f)}}
             : f \in Below(fs, d), n \in {Len(Segments(d))}}

\* collation rank of the characters file names are made of
CharRank(c) == CASE c = "." -> 1 [] c = "/" -> 2 [] c = "w" -> 3 [] c = "x" -> 4
                 [] OTHER -> 5

RECURSIVE LexLess(_, _)
LexLess(a, b) ==
    IF a = <<>> THEN b # <<>>
    ELSE IF b = <<>> THEN FALSE
    ELSE IF a[1] = b[1] THEN LexLess(Tail(a), Tail(b))
    ELSE CharRank(a[1]) < CharRank(b[1])

RECURSIVE SortStrings(_)
SortStrings(S) ==
    IF S = {} THEN <<>>
    ELSE LET m == CHOOSE x \in S : \A y \in S : y = x \/ LexLess(x, y)
         IN  <<m>> \o SortStrings(S \ {m})

\* the error a rejected fs call carries
FsError(code, p) == <<code>> \o p

Access(op, p) == [op |-> op, path |-> p]

\* the outcome of an executeTool call
Returned(out, fs, log) ==
    [settles |-> TRUE, threw |-> FALSE, out |-> out, files |-> fs, log |-> log]

Threw(msg, fs, log) ==
    [settles |-> TRUE, threw |-> TRUE, out |-> msg, files |-> fs, log |-> log]

\* an executeTool call whose promise stays pending
Hangs(fs, log) ==
    [settles |-> FALSE, threw |-> FALSE, out |-> <<>>, files |-> fs, log |-> log]

(* The "utf8" encoding of fs.writeFile and fs.readFile.  A string is a       *)
(* sequence of UTF-16 code units, a file a sequence of bytes.  The model   *)
(* has the ASCII characters, whose byte is written like the character, and *)
(* one high and one low surrogate; files hold well-formed UTF-8.           *)
HighSurrogate == "<D83D>"

LowSurrogate == "<DE00>"

\* U+FFFD, the replacement character
Replacement == "<FFFD>"

\* the bytes of U+1F600, the character of the surrogate pair
PairBytes == <<"F0", "9F", "98", "80">>

\* the bytes of U+FFFD
ReplacementBytes == <<"EF", "BF", "BD">>

\* Buffer.from(s, "utf8"): a surrogate pair is one character of four bytes, a
\* surrogate outside a pair is encoded as U+FFFD
Utf8Encode(s) ==
    Join([i \in 1..Len(s) |->
            IF s[i] = HighSurrogate /\ i < Len(s) /\ s[i + 1] = LowSurrogate
            THEN PairBytes
            ELSE IF s[i] = LowSurrogate /\ i > 1 /\ s[i - 1] = HighSurrogate THEN <<>>
            ELSE IF s[i] \in {HighSurrogate, LowSurrogate} THEN ReplacementBytes
            ELSE <<s[i]>>],
         <<>>)

\* buffer.toString("utf8") of well-formed UTF-8
Utf8Decode(bytes) ==
    Join([i \in 1..Len(bytes) |->
            IF bytes[i] = "F0" THEN <<HighSurrogate, LowSurrogate>>
            ELSE IF bytes[i] = "EF" THEN <<Replacement>>
            ELSE IF bytes[i] \in {"9F", "98", "80", "BF", "BD"} THEN <<>>
            ELSE <<bytes[i]>>],
         <<>>)

\* case "read_file"
ReadFile(input, fs) ==
    The({LET p == e.resolved
             log == <<Access("readFile", p)>>
         IN  IF ~e.ok THEN Threw(e.err, fs, <<>>)
             ELSE IF IsFile(fs, p) THEN Returned(Truncate(Utf8Decode(fs[p])), fs, log)
             ELSE IF IsDir(fs, p) THEN Threw(FsError("EISDIR: ", p), fs, log)
             ELSE Threw(FsError("ENOENT: ", p), fs, log)
           : e \in {EnsureInsideRoot(RootDirAbs, input.path)}})

\* a write_file that never looks at overwrite
WriteFileAlwaysOverwrites(input, fs) ==
    The({LET p == e.resolved
             overwrite == TRUE
             content == IF input.content = Undefined THEN <<>> ELSE input.content
             statLog == IF overwrite THEN <<>> ELSE <<Access("stat", p)>>
             exists == IsFile(fs, p) \/ IsDir(fs, p)
             mkdirLog == statLog \o <<Access("mkdir", Dirname(p))>>
             writeLog == mkdirLog \o <<Access("writeFile", p)>>
         IN  IF ~e.ok THEN Threw(e.err, fs, <<>>)
             ELSE IF ~overwrite /\ exists
                  THEN Threw(<<"File already exists: ">> \o input.path, fs, statLog)
             ELSE IF \E f \in DOMAIN fs : IsAncestor(f, p)
                  THEN Threw(FsError("ENOTDIR: ", Dirname(p)), fs, mkdirLog)
             ELSE IF IsDir(fs, p) THEN Threw(FsError("EISDIR: ", p), fs, writeLog)
             ELSE Returned(<<"o", "k">>,
                           [q \in DOMAIN fs \cup {p} |->
                              IF q = p THEN Utf8Encode(content) ELSE fs[q]],
                           writeLog)
           : e \in {EnsureInsideRoot(RootDirAbs, input.path)}})

\* case "write_file"
WriteFile(input, fs) ==
    The({LET p == e.resolved
             overwrite == input.overwrite # "false"
             content == IF input.content = Undefined THEN <<>> ELSE input.content
             statLog == IF overwrite THEN <<>> ELSE <<Access("stat", p)>>
             exists == IsFile(fs, p) \/ IsDir(fs, p)
             mkdirLog == statLog \o <<Access("mkdir", Dirname(p))>>
             writeLog == mkdirLog \o <<Access("writeFile", p)>>
         IN  IF ~e.ok THEN Threw(e.err, fs, <<>>)
             ELSE IF ~overwrite /\ exists
                  THEN Threw(<<"File already exists: ">> \o input.path, fs, statLog)
             ELSE IF \E f \in DOMAIN fs : IsAncestor(f, p)
                  THEN Threw(FsError("ENOTDIR: ", Dirname(p)), fs, mkdirLog)
             ELSE IF IsDir(fs, p) THEN Threw(FsError("EISDIR: ", p), fs, writeLog)
             ELSE Returned(<<"o", "k">>,
                           [q \in DOMAIN fs \cup {p} |->
                              IF q = p THEN Utf8Encode(content) ELSE fs[q]],
                           writeLog)
           : e \in {EnsureInsideRoot(RootDirAbs, input.path)}})

\* case "list_dir"
ListDir(input, fs) ==
    The({LET p == e.resolved
             log == <<Access("readdir", p)>>
             names == {IF d.isDirectory THEN d.name \o <<"/">> ELSE d.name
                         : d \in DirEntries(fs, p)}
         IN  IF ~e.ok THEN Threw(e.err, fs, <<>>)
             ELSE IF IsDir(fs, p)
                  THEN Returned(Join(SortStrings(names), <<"\n">>), fs, log)
             ELSE IF IsFile(fs, p) THEN Threw(FsError("ENOTDIR: ", p), fs, log)
             ELSE Threw(FsError("ENOENT: ", p), fs, log)
           : e \in {EnsureInsideRoot(RootDirAbs, input.path)}})

\* the path of file f relative to directory d, d an ancestor of f
RelativeTo(d, f) ==
    The({Join(SubSeq(F, Len(D) + 1, Len(F)), <<SEP>>)
           : D \in {Segments(d)}, F \in {Segments(f)}})

\* fast-glob on one pattern with onlyFiles: the files it reports, relative to cwd.
\* "*": the files of cwd; "**": every file below cwd; "../*": the files of the
\* directory above cwd.
GlobMatches(pattern, cwd, fs) ==
    CASE pattern = "*" ->
           {RelativeTo(cwd, f) : f \in {g \in DOMAIN fs : Dirname(g) = cwd}}
      [] pattern = "**" ->
           {RelativeTo(cwd, f) : f \in {g \in DOMAIN fs : IsAncestor(cwd, g)}}
      [] pattern = "../*" ->
           {<<".", ".", SEP>> \o RelativeTo(Dirname(cwd), f)
              : f \in {g \in DOMAIN fs : Dirname(g) = Dirname(cwd)}}
      [] OTHER -> {}

\* the directory fast-glob reads for the pattern
GlobBase(pattern, cwd) == IF pattern = "../*" THEN Dirname(cwd) ELSE cwd

\* case "glob"
Glob(input, fs) ==
    The({LET cwd == e.resolved
             log == <<Access("glob", GlobBase(input.pattern, cwd))>>
         IN  IF ~e.ok THEN Threw(e.err, fs, <<>>)
             ELSE Returned(Join(SortStrings(GlobMatches(input.pattern, cwd, fs)),
                                <<"\n">>),
                           fs, log)
           : e \in {IF input.cwd # Undefined /\ input.cwd # <<>>
                    THEN EnsureInsideRoot(RootDirAbs, input.cwd)
                    ELSE [ok |-> TRUE, resolved |-> RootDirAbs, err |-> <<>>]}})

DefaultTimeout == 30000
MinTimeout == 1000
MaxTimeout == 120000

Min(a, b) == IF a <= b THEN a ELSE b

Max(a, b) == IF a >= b THEN a ELSE b

\* typeof input.timeout_ms === "number"; timeout_ms is <<n>> for the number n,
\* <<>> when it is absent and <<"string", s>> for the string s
IsNumber(timeout_ms) == Len(timeout_ms) = 1

\* a timeout that is handed to exec as it comes
ShellTimeoutUnclamped(input) ==
    IF IsNumber(input.timeout_ms) THEN input.timeout_ms[1] ELSE DefaultTimeout

\* the timeout run_shell hands to exec
ShellTimeout(input) ==
    LET timeoutMsRaw == IF IsNumber(input.timeout_ms) THEN input.timeout_ms[1]
                        ELSE DefaultTimeout
    IN  Max(MinTimeout, Min(MaxTimeout, timeoutMsRaw))

\* the labelled output of a command that ended with exit code 0
ShellOutput(sh) ==
    Join(SelectSeq(<<IF sh.stdout # <<>> THEN <<"STDOUT:\n">> \o sh.stdout ELSE <<>>,
                     IF sh.stderr # <<>> THEN <<"STDERR:\n">> \o sh.stderr ELSE <<>>>>,
                   LAMBDA x : x # <<>>),
         <<"\n\n">>)

\* case "run_shell"; sh is what the command does when it is run: the time it
\* takes (ms), its exit code and its output, and what it does on SIGTERM.  At
\* the timeout exec sends the child the default kill signal, SIGTERM, once:
\* exec rejects when the command ends by it or exits with a code other than 0,
\* and the promise stays pending while a command that ignores the signal runs.
RunShell(input, fs, sh) ==
    The({LET cwd == e.resolved
             timeout == ShellTimeout(input)
             log == <<[op |-> "exec", path |-> cwd, timeout |-> timeout,
                       killed |-> sh.duration > timeout]>>
         IN  IF ~e.ok THEN Threw(e.err, fs, <<>>)
             ELSE IF ~IsDir(fs, cwd) THEN Threw(FsError("spawn ENOENT: ", cwd), fs, log)
             ELSE IF sh.duration > timeout /\ sh.onSigterm = "ignores" THEN Hangs(fs, log)
             ELSE IF sh.duration > timeout
                  THEN Threw(<<"Command failed: ", input.command>>, fs, log)
             ELSE IF sh.exit # 0
                  THEN Threw(<<"Command failed: ", input.command>> \o sh.stderr, fs, log)
             ELSE Returned(Truncate(ShellOutput(sh)), fs, log)
           : e \in {IF input.cwd # Undefined /\ input.cwd # <<>>
                    THEN EnsureInsideRoot(RootDirAbs, input.cwd)
                    ELSE [ok |-> TRUE, resolved |-> RootDirAbs, err |-> <<>>]}})

\* executeTool(name, input)
ExecuteTool(name, input, fs, sh) ==
    CASE name = "read_file" -> ReadFile(input, fs)
      [] name = "write_file" -> WriteFile(input, fs)
      [] name = "list_dir" -> ListDir(input, fs)
      [] name = "glob" -> Glob(input, fs)
      [] name = "run_shell" -> RunShell(input, fs, sh)
      [] OTHER -> Threw(<<"Unknown tool: ", name>>, fs, <<>>)

(***************************************************************************)
(* Inputs of the tool runtime.                                             *)
(***************************************************************************)
PathChars == {"/", ".", "w", "x"}

\* the paths a tool call may carry
InputPaths == StringsUpTo(PathChars, MaxPathLen)

ToolNames == {"read_file", "write_file", "list_dir", "glob", "run_shell"}

ToolInput(path, content, overwrite, cwd, pattern, command, timeout_ms) ==
    [path |-> path, content |-> content, overwrite |-> overwrite, cwd |-> cwd,
     pattern |-> pattern, command |-> command, timeout_ms |-> timeout_ms]

\* the values of timeout_ms the tool driver hands to run_shell: none, numbers
\* below, inside and above the range, a string
TimeoutInputs ==
    {<<>>, <<-1>>, <<1>>, <<1000>>, <<5000>>, <<120000>>, <<200000>>,
     <<"string", "5000">>}

\* the contents the tool driver writes: a letter, a surrogate pair, a high
\* surrogate on its own
WriteContents == {<<"b">>, <<HighSurrogate, LowSurrogate>>, <<HighSurrogate>>}

\* the inputs the tool driver hands to each tool; a field the tool does not
\* read is left undefined
ToolInputs(name) ==
    CASE name = "read_file" ->
           {ToolInput(p, Undefined, "undefined", Undefined, "", "", <<>>)
              : p \in InputPaths \cup {Undefined}}
      [] name = "write_file" ->
           {ToolInput(p, c, o, Undefined, "", "", <<>>)
              : p \in InputPaths \cup {Undefined}, c \in WriteContents,
                o \in {"undefined", "true", "false"}}
      [] name = "list_dir" ->
           {ToolInput(p, Undefined, "undefined", Undefined, "", "", <<>>)
              : p \in InputPaths \cup {Undefined}}
      [] name = "glob" ->
           {ToolInput(Undefined, Undefined, "undefined", c, g, "", <<>>)
              : c \in InputPaths \cup {Undefined}, g \in {"*", "**", "../*"}}
      [] name = "run_shell" ->
           {ToolInput(Undefined, Undefined, "undefined", c, "", "cmd", t)
              : c \in InputPaths \cup {Undefined}, t \in TimeoutInputs}
      [] OTHER ->
           {ToolInput(p, Undefined, "undefined", Undefined, "", "", <<>>)
              : p \in {<<"x">>, <<".", ".", "/", "x">>}}

\* what a shell command does when run: duration (ms), exit code, output
ShellBehaviours ==
    {[duration |-> d, exit |-> x, stdout |-> <<"o">>, stderr |-> e, onSigterm |-> "exits"]
       : d \in {10, 5000, 150000}, x \in {0, 1}, e \in {<<>>, <<"e">>}}

\* a command that ends at once with exit code 0
QuietShell ==
    [duration |-> 10, exit |-> 0, stdout |-> <<"o">>, stderr |-> <<>>, onSigterm |-> "exits"]

FileSystem(paths, content) == [p \in paths |-> content]

\* the filesystems a run starts with
InitialFiles ==
    {FileSystem({}, <<"a">>),
     FileSystem({<<"/", "w", "/", "x">>}, <<"a">>),
     FileSystem({<<"/", "w", "/", "x">>, <<"/", "x">>, <<"/", "w", "x">>}, <<"a">>),
     FileSystem({<<"/", "w", "/", "w", "/", "x">>, <<"/", "w", "/", ".", "x">>}, <<"a">>)}

NoCall == [called |-> FALSE]

\* no read_file has followed the write
NoRead == [read |-> FALSE]

(***************************************************************************)
(* Values of the variables of a component that is not running.             *)
(***************************************************************************)
NoValue == <<"none">>

ToolsIdle ==
    /\ files = FileSystem({}, <<>>) /\ lastCall = NoCall /\ readBack = NoRead
    /\ commands = {}

AgentIdle ==
    /\ maxSteps = 0 /\ enableTools = FALSE /\ pc = "idle" /\ step = 0
    /\ messages = <<>> /\ toolUses = <<>> /\ results = <<>> /\ running = {}
    /\ ret = NoValue /\ error = NoValue
    /\ llmCalls = 0 /\ llmFailures = 0 /\ toolExecs = 0 /\ toolThrows = 0
    /\ toolRounds = 0 /\ atFailure = NoValue

\* rankSkillsForPrompt has not been called
NoRanking == [called |-> FALSE]

\* main has not read its options, and no sync is under way
NoCli == [parsed |-> FALSE]

NoSync == [pc |-> "idle"]

CliIdle == cli = NoCli /\ sync = NoSync

CatalogIdle ==
    /\ localSkills = <<>> /\ externalSkills = <<>> /\ ranking = NoRanking
    /\ CliIdle

SelectionIdle ==
    /\ prompt = <<>> /\ skills = <<>> /\ apiKey = FALSE /\ spc = "idle"
    /\ match = NoValue /\ routerCalls = 0 /\ routerReply = NoValue
    /\ CatalogIdle

\* an argument of restrictTools: an array of entries, or a value that is none
Allowed(isArray, items) == [isArray |-> isArray, items |-> items]

SetupIdle ==
    /\ selectedSkills = <<>> /\ allowedTools = Allowed(FALSE, <<>>)
    /\ toolsForRun = NoValue

(***************************************************************************)
(* The tool runtime on its own: one executeTool call on a filesystem.      *)
(***************************************************************************)
ToolInit ==
    /\ files \in InitialFiles
    /\ lastCall = NoCall
    /\ readBack = NoRead
    /\ commands = ShellBehaviours
    /\ AgentIdle
    /\ SelectionIdle
    /\ SetupIdle
    /\ requests = <<>>

\* a call of executeTool(name, input)
ToolCall ==
    /\ lastCall = NoCall
    /\ \E name \in ToolNames \cup {"nope"} :
         \E input \in ToolInputs(name) :
           \E sh \in IF name = "run_shell" THEN commands ELSE {QuietShell} :
           \E r \in {ExecuteTool(name, input, files, sh)} :
                 /\ r.settles
                 /\ files' = r.files
                 /\ lastCall' = [called |-> TRUE, name |-> name, input |-> input,
                                 before |-> files, threw |-> r.threw, out |-> r.out,
                                 log |-> r.log]
    /\ UNCHANGED <<readBack, commands, agentVars, selVars, setupVars, requests>>

\* read_file on the path of the write_file call that has just returned
ToolReadBack ==
    /\ lastCall.called
    /\ lastCall.name = "write_file"
    /\ ~lastCall.threw
    /\ readBack = NoRead
    /\ \E r \in {ExecuteTool("read_file",
                              ToolInput(lastCall.input.path, Undefined, "undefined",
                                        Undefined, "", "", <<>>),
                              files, QuietShell)} :
         /\ readBack' = [read |-> TRUE, threw |-> r.threw, out |-> r.out]
         /\ files' = r.files
    /\ UNCHANGED <<lastCall, commands, agentVars, selVars, setupVars, requests>>

ToolNext == ToolCall \/ ToolReadBack

ToolSpec == ToolInit /\ [][ToolNext]_vars

(***************************************************************************)
(* Properties of the tool runtime.                                         *)
(***************************************************************************)
\* the path a call of a path-accepting tool carries: read_file, write_file and
\* list_dir take path; glob and run_shell take cwd, when one is given
CallPath(call) ==
    IF call.name \in {"read_file", "write_file", "list_dir"} THEN call.input.path
    ELSE IF call.name \in {"glob", "run_shell"} /\ call.input.cwd # <<>>
         THEN call.input.cwd
    ELSE Undefined

\* the resolved path is the workspace root or lies below it
InsideWorkspace(targetPath) ==
    LET R == Segments(RootDirAbs)
        P == Segments(PathResolve(RootDirAbs, targetPath))
    IN  IsPrefix(R, P)

\* the call carries a path that resolves outside the workspace root
EscapingCall(call) ==
    /\ call.called
    /\ CallPath(call) # Undefined
    /\ ~InsideWorkspace(CallPath(call))

\* C1: a call of a path-accepting tool whose path resolves outside the workspace
\* root fails with 'Path escapes workspace root' and has made no filesystem
\* access and started no subprocess: nothing is logged, no file has changed
C1_EscapeFailsBeforeAccess ==
    EscapingCall(lastCall) =>
        /\ lastCall.threw
        /\ lastCall.out = EscapeMessage(CallPath(lastCall))
        /\ lastCall.log = <<>>
        /\ files = lastCall.before

\* C1 witness: read_file("../x") on a workspace that has the file /x outside it
C1_Witness ==
    /\ EscapingCall(lastCall)
    /\ lastCall.name = "read_file"
    /\ lastCall.input.path = <<".", ".", "/", "x">>
    /\ <<"/", "x">> \in DOMAIN files
    /\ lastCall.threw

(***************************************************************************)
(* agent.js: content blocks, messages and the backend's responses.         *)
(***************************************************************************)
NoInput == ToolInput(Undefined, Undefined, "undefined", Undefined, "", "", <<>>)

TextBlock(t) == [type |-> "text", text |-> t, id |-> "", name |-> "", input |-> NoInput]

ToolUse(id, name, input) ==
    [type |-> "tool_use", text |-> <<>>, id |-> id, name |-> name, input |-> input]

Message(role, content) == [role |-> role, content |-> content]

\* --skills-dir, relative to process.cwd()
SkillsDir == <<"s">>

\* the path of the SKILL.md of the skill in folder name, relative to the
\* workspace root
SkillRel(name) ==
    SkillsDir \o <<SEP>> \o name \o <<SEP, "S", "K", "I", "L", "L", ".", "m", "d">>

\* the tool calls the backend asks for in the model
ReadSkill(id) ==
    ToolUse(id, "read_file",
            [NoInput EXCEPT !.path = SkillRel(<<"d", "e", "p", "l", "o", "y">>)])

ReadX(id) == ToolUse(id, "read_file", [NoInput EXCEPT !.path = <<"x">>])

ReadOutside(id) == ToolUse(id, "read_file", [NoInput EXCEPT !.path = <<".", ".", "/", "x">>])

WriteXNoOverwrite(id) ==
    ToolUse(id, "write_file",
            [NoInput EXCEPT !.path = <<"x">>, !.content = <<"b">>, !.overwrite = "false"])

WriteX(id) ==
    ToolUse(id, "write_file", [NoInput EXCEPT !.path = <<"x">>, !.content = <<"b">>])

Shell(id) == ToolUse(id, "run_shell", [NoInput EXCEPT !.command = "cmd"])

UnknownTool(id) == ToolUse(id, "nope", NoInput)

\* resp.content of the responses the backend gives in the model
Responses ==
    {<<>>,
     <<TextBlock(<<>>)>>,
     <<TextBlock(<<"a">>)>>,
     <<TextBlock(<<"a">>), TextBlock(<<"b">>)>>,
     <<ReadX("t1")>>,
     <<ReadSkill("t1")>>,
     <<TextBlock(<<"a">>), ReadOutside("t1"), WriteXNoOverwrite("t2")>>,
     <<UnknownTool("t1"), Shell("t2")>>,
     <<WriteX("t1"), TextBlock(<<"b">>), ReadX("t2")>>}

\* the errors a backend call is rejected with
BackendErrors == {<<"network error">>, <<"401 authentication_error">>}

\* what a shell command run by the agent does
AgentShellBehaviours ==
    {[duration |-> 10, exit |-> 0, stdout |-> <<"o">>, stderr |-> <<>>,
      onSigterm |-> "exits"],
     [duration |-> 10, exit |-> 1, stdout |-> <<>>, stderr |-> <<"e">>,
      onSigterm |-> "exits"],
     [duration |-> 150000, exit |-> 0, stdout |-> <<>>, stderr |-> <<>>,
      onSigterm |-> "exits"]}

\* a command that runs longer than every timeout and ends on SIGTERM
SlowCommand ==
    [duration |-> 150000, exit |-> 0, stdout |-> <<>>, stderr |-> <<>>,
     onSigterm |-> "exits"]

\* a command that runs longer than every timeout and ignores SIGTERM
StubbornCommand ==
    [duration |-> 150000, exit |-> 0, stdout |-> <<>>, stderr |-> <<>>,
     onSigterm |-> "ignores"]

\* the filesystems an agent run starts with
AgentInitialFiles ==
    {FileSystem({<<"/", "x">>}, <<"a">>),
     FileSystem({<<"/", "w", "/", "x">>, <<"/", "x">>}, <<"a">>)}

\* extractText(contentBlocks)
ExtractText(contentBlocks) ==
    LET texts == SelectSeq(contentBlocks, LAMBDA b : b.type = "text")
    IN  Join([i \in 1..Len(texts) |-> texts[i].text], <<"\n">>)

\* (resp.content || []).filter((b) => b.type === "tool_use")
ToolUsesOf(contentBlocks) == SelectSeq(contentBlocks, LAMBDA b : b.type = "tool_use")

\* the step-limit notice
Notice(n) ==
    <<"[mini-agent] stopped after ", ToString(n),
      " tool steps (increase --max-steps if needed).">>

\* the loop's fall-through return
Unexpected == <<"[mini-agent] unexpected: tool loop ended">>

\* the step-limit return without the response's text
StepLimitTextNoticeOnly(text, n) == Notice(n)

\* the value returned at the step limit
StepLimitText(text, n) == (IF text # <<>> THEN text \o <<"\n\n">> ELSE <<>>) \o Notice(n)

\* a step-limit test that never fires
StepLimitNever(s, n) == FALSE

\* if (step === maxSteps)
StepLimitReached(s, n) == s = n

\* the loop condition step <= maxSteps
LoopGuard(s, n) == s <= n

\* a backend call that is issued again after a rejection
AfterBackendErrorRetry(at) == at

\* where runAgentOnce is after a rejected backend call: the await is in no try
\* block, so the rejection leaves the function
AfterBackendError(at) == "failed"

\* a tool round without the try/catch: what executeTool throws leaves the loop
ToolOutcomeUncaught(tu, r) ==
    [propagates |-> r.threw,
     result |-> [type |-> "tool_result", tool_use_id |-> tu.id, is_error |-> FALSE,
                 content |-> r.out]]

\* a tool result that carries the tool's name in place of the call's id
ToolOutcomeIdFromName(tu, r) ==
    [propagates |-> FALSE,
     result |-> [type |-> "tool_result", tool_use_id |-> tu.name, is_error |-> r.threw,
                 content |-> r.out]]

\* the try/catch around executeTool: the tool result pushed for tool use tu
ToolOutcome(tu, r) ==
    [propagates |-> FALSE,
     result |-> [type |-> "tool_result", tool_use_id |-> tu.id, is_error |-> r.threw,
                 content |-> r.out]]

(***************************************************************************)
(* tools.js: the registry and restrictTools.  A tool of the registry is    *)
(* named by its name; an allowed entry is a text.                          *)
(***************************************************************************)
\* the tools of the registry, in its order
Registry == <<"read_file", "write_file", "list_dir", "glob", "run_shell">>

\* the name of a registry tool as a text
NameText(tool) ==
    CASE tool = "read_file" -> <<"r", "e", "a", "d", "_", "f", "i", "l", "e">>
      [] tool = "write_file" -> <<"w", "r", "i", "t", "e", "_", "f", "i", "l", "e">>
      [] tool = "list_dir" -> <<"l", "i", "s", "t", "_", "d", "i", "r">>
      [] tool = "glob" -> <<"g", "l", "o", "b">>
      [] tool = "run_shell" -> <<"r", "u", "n", "_", "s", "h", "e", "l", "l">>

\* the tool an alias stands for, "" for a text that is no alias
AliasOf(alias) ==
    CASE alias = <<"r", "e", "a", "d">> -> "read_file"
      [] alias = <<"w", "r", "i", "t", "e">> -> "write_file"
      [] alias = <<"e", "d", "i", "t">> -> "write_file"
      [] alias \in {<<"l", "s">>, <<"l", "i", "s", "t">>} -> "list_dir"
      [] alias \in {<<"g", "l", "o", "b">>, <<"s", "e", "a", "r", "c", "h">>} -> "glob"
      [] alias \in {<<"b", "a", "s", "h">>, <<"s", "h", "e", "l", "l">>,
                    <<"t", "e", "r", "m", "i", "n", "a", "l">>} -> "run_shell"
      [] OTHER -> ""

\* normalizeAllowedToolName(name): the text of a tool name; the empty text
\* stands for null, which filter(Boolean) drops like the empty string
NormalizeAllowedToolName(name) ==
    LET n == Trim(name)
    IN  IF n = <<>> THEN <<>>
        ELSE IF AliasOf(ToLowerCase(n)) # "" THEN NameText(AliasOf(ToLowerCase(n)))
        ELSE n

\* [...new Set(q)]: the first occurrences, in order
Unique(q) ==
    LET at == SelectSeq(Positions(q), LAMBDA i : \A j \in 1..(i - 1) : q[j] # q[i])
    IN  [k \in 1..Len(at) |-> q[at[k]]]

\* toolByName.get(n): the tool in a one-element sequence, or the empty sequence
ToolByName(n) == SelectSeq(Registry, LAMBDA t : NameText(t) = n)

\* uniq.map((n) => toolByName.get(n)).filter(Boolean)
Available(items) ==
    LET mapped == SelectSeq([i \in 1..Len(items) |-> NormalizeAllowedToolName(items[i])],
                            LAMBDA n : n # <<>>)
        known == SelectSeq(Unique(mapped), LAMBDA n : ToolByName(n) # <<>>)
    IN  [k \in 1..Len(known) |-> ToolByName(known[k])[1]]

\* a restriction that exposes no tool when no entry is known
RestrictToolsFailClosed(allowed) ==
    IF ~allowed.isArray \/ Len(allowed.items) = 0 THEN Registry
    ELSE Available(allowed.items)

\* restrictTools(allowedTools)
RestrictTools(allowed) ==
    IF ~allowed.isArray \/ Len(allowed.items) = 0 THEN Registry
    ELSE IF Len(Available(allowed.items)) > 0 THEN Available(allowed.items)
    ELSE Registry

\* the entries the allowed lists of the model are made of
AllowedEntries ==
    {<<"r", "e", "a", "d">>,
     <<"w", "r", "i", "t", "e">>,
     <<"e", "d", "i", "t">>,
     <<"l", "s">>,
     <<"l", "i", "s", "t">>,
     <<"g", "l", "o", "b">>,
     <<"s", "e", "a", "r", "c", "h">>,
     <<"b", "a", "s", "h">>,
     <<"s", "h", "e", "l", "l">>,
     <<"t", "e", "r", "m", "i", "n", "a", "l">>,
     <<"R", "e", "a", "d">>,
     <<" ", "b", "a", "s", "h", " ">>,
     <<"r", "e", "a", "d", "_", "f", "i", "l", "e">>,
     <<"r", "u", "n", "_", "s", "h", "e", "l", "l">>,
     <<"R", "E", "A", "D", "_", "F", "I", "L", "E">>,
     <<"n", "o", "p", "e">>,
     <<" ">>}

\* the arguments restrictTools is called with in the model
AllowedLists ==
    {Allowed(TRUE, q) : q \in StringsUpTo(AllowedEntries, MaxAllowed)}
        \cup {Allowed(FALSE, <<>>)}

(***************************************************************************)
(* restrictTools on its own: one call on an allowed list.                  *)
(***************************************************************************)
RestrictInit ==
    /\ ToolsIdle
    /\ AgentIdle
    /\ SelectionIdle
    /\ selectedSkills = <<>>
    /\ allowedTools \in AllowedLists
    /\ toolsForRun = NoValue
    /\ requests = <<>>

\* a call of restrictTools(allowedTools)
RestrictCall ==
    /\ toolsForRun = NoValue
    /\ toolsForRun' = RestrictTools(allowedTools)
    /\ UNCHANGED <<toolVars, agentVars, selVars, selectedSkills, allowedTools, requests>>

RestrictNext == RestrictCall

RestrictSpec == RestrictInit /\ [][RestrictNext]_vars

\* the alias table of the claim, as pairs of an alias and a tool name
AliasTable ==
    {<<"read", "read_file">>, <<"write", "write_file">>, <<"edit", "write_file">>,
     <<"ls", "list_dir">>, <<"list", "list_dir">>, <<"glob", "glob">>,
     <<"search", "glob">>, <<"bash", "run_shell">>, <<"shell", "run_shell">>,
     <<"terminal", "run_shell">>}

\* the characters of a string constant of the model
Chars(str) ==
    CASE str = "read" -> <<"r", "e", "a", "d">>
      [] str = "write" -> <<"w", "r", "i", "t", "e">>
      [] str = "edit" -> <<"e", "d", "i", "t">>
      [] str = "ls" -> <<"l", "s">>
      [] str = "list" -> <<"l", "i", "s", "t">>
      [] str = "search" -> <<"s", "e", "a", "r", "c", "h">>
      [] str = "bash" -> <<"b", "a", "s", "h">>
      [] str = "shell" -> <<"s", "h", "e", "l", "l">>
      [] str = "terminal" -> <<"t", "e", "r", "m", "i", "n", "a", "l">>
      [] OTHER -> NameText(str)

\* the names of the registry tools an allowed entry stands for: the image of
\* its alias, the entry trimmed and in lower case being looked up, or else the
\* tool the trimmed entry names
ImageOf(entry) ==
    IF \E a \in AliasTable : Chars(a[1]) = ToLowerCase(Trim(entry))
    THEN {a[2] : a \in {b \in AliasTable : Chars(b[1]) = ToLowerCase(Trim(entry))}}
    ELSE {t \in Range(Registry) : NameText(t) = Trim(entry)}

\* C17: restrictTools(allowed) returns exactly the registry tools that are the
\* images of the allowed entries under the alias table, another entry being a
\* literal tool name, each tool once; when allowed is empty or no list, or
\* resolves to no known tool, it returns the whole registry
C17_RestrictToolsResolvesAliases ==
    toolsForRun # NoValue =>
        LET known == UNION {ImageOf(allowedTools.items[i])
                              : i \in 1..Len(allowedTools.items)}
        IN  IF allowedTools.isArray /\ known # {}
            THEN /\ Range(toolsForRun) = known
                 /\ Len(toolsForRun) = Cardinality(known)
            ELSE toolsForRun = Registry

\* C17 witness: the list [" bash ", "Read"] narrows the tools to run_shell and
\* read_file
C17_Witness ==
    /\ allowedTools = Allowed(TRUE, <<<<" ", "b", "a", "s", "h", " ">>,
                                      <<"R", "e", "a", "d">>>>)
    /\ toolsForRun = <<"run_shell", "read_file">>

(***************************************************************************)
(* agent.js: the system prompt and the requests.                           *)
(***************************************************************************)
BasePrompt == <<"You are a helpful mini coding agent running as a Node.js CLI. ...">>

\* the block of one selected skill
SkillBlock(s) ==
    <<"\n\n---\nSKILL: ">> \o s.name \o <<"\nTITLE: ">> \o s.title
        \o <<"\nDESCRIPTION: ">> \o s.description \o <<"\n\n">> \o s.markdown \o <<"\n">>

\* buildSystemPrompt(selectedSkills)
BuildSystemPrompt(selected) ==
    IF Len(selected) = 0 THEN BasePrompt
    ELSE BasePrompt \o <<"\nSelected skills:\n">>
           \o Join([i \in 1..Len(selected) |-> SkillBlock(selected[i])], <<>>)

\* (selectedSkills || []).flatMap((s) => s.allowedTools).filter(Boolean)
AllowedFromSkills(selected) ==
    Allowed(TRUE, SelectSeq(Join([i \in 1..Len(selected) |-> selected[i].allowedTools],
                                 <<>>),
                            LAMBDA x : x # <<>>))

\* the request of a createClaudeMessage call of runAgentOnce
AgentRequest(purpose, selected, msgs, tools) ==
    [purpose |-> purpose, system |-> BuildSystemPrompt(selected), messages |-> msgs,
     tools |-> tools]

\* a tool loop that calls executeTool without awaiting the call before
StartsWithoutAwait(pending) == TRUE

\* await executeTool(...) in the for loop: the next call is made only when no
\* call of the round is pending
CanStart(pending) == pending = {}

\* a round whose results are never pushed
PushResultsOmitted(msgs, rs) == msgs

\* messages.push({ role: "user", content: results })
PushResults(msgs, rs) == Append(msgs, Message("user", rs))

(***************************************************************************)
(* runAgentOnce.                                                           *)
(***************************************************************************)
\* an entry that goes into the tool loop whether or not tools are enabled
EntryPcIgnoresSwitch(tools, n) == IF LoopGuard(0, n) THEN "call" ELSE "done"

\* where runAgentOnce is after its entry: if (!enableTools) it makes the one
\* text call, otherwise it is at the first backend call of the loop, or past
\* the loop when the loop does not run
EntryPc(tools, n) ==
    IF tools /\ LoopGuard(0, n) THEN "call" ELSE IF tools THEN "done" ELSE "text"

AgentEntryWithSkills ==
    /\ files \in AgentInitialFiles
    /\ lastCall = NoCall
    /\ readBack = NoRead
    /\ maxSteps \in 0..MaxStepsBound
    /\ enableTools \in BOOLEAN
    /\ pc = EntryPc(enableTools, maxSteps)
    /\ step = 0
    /\ messages = <<Message("user", <<>>)>>
    /\ toolUses = <<>>
    /\ results = <<>>
    /\ running = {}
    /\ ret = IF enableTools /\ ~LoopGuard(0, maxSteps) THEN Unexpected ELSE NoValue
    /\ error = NoValue
    /\ llmCalls = 0 /\ llmFailures = 0 /\ toolExecs = 0 /\ toolThrows = 0
    /\ toolRounds = 0 /\ atFailure = NoValue
    /\ SelectionIdle
    /\ allowedTools = AllowedFromSkills(selectedSkills)
    /\ toolsForRun = IF enableTools THEN RestrictTools(allowedTools) ELSE NoValue
    /\ requests = <<>>

\* runAgentOnce without a selected skill
AgentEntry ==
    /\ selectedSkills = <<>>
    /\ AgentEntryWithSkills

\* runAgentOnce on a workspace whose shell commands end at the latest on SIGTERM
AgentInit ==
    /\ AgentEntry
    /\ commands = AgentShellBehaviours

\* tools disabled: the single backend call returns
TextOnlyResponse ==
    /\ pc = "text"
    /\ \E r \in Responses :
         /\ ret' = ExtractText(r)
         /\ pc' = "done"
         /\ llmCalls' = llmCalls + 1
    /\ requests' = Append(requests,
                          AgentRequest("agent:text", selectedSkills, messages, NoValue))
    /\ UNCHANGED <<toolVars, maxSteps, enableTools, step, messages, toolUses, results,
                   running, error, llmFailures, toolExecs, toolThrows, toolRounds,
                   atFailure, selVars, setupVars>>

\* the backend call of a loop step returns: the loop body up to its return or
\* to the first executeTool call
StepResponse ==
    /\ pc = "call"
    /\ \E r \in Responses :
         LET uses == ToolUsesOf(r)
         IN  /\ messages' = Append(messages, Message("assistant", r))
             /\ llmCalls' = llmCalls + 1
             /\ IF uses = <<>>
                THEN /\ ret' = ExtractText(r)
                     /\ pc' = "done"
                     /\ UNCHANGED <<toolUses, results>>
                ELSE IF StepLimitReached(step, maxSteps)
                THEN /\ ret' = StepLimitText(ExtractText(r), maxSteps)
                     /\ pc' = "done"
                     /\ UNCHANGED <<toolUses, results>>
                ELSE /\ toolUses' = uses
                     /\ results' = <<>>
                     /\ pc' = "tools"
                     /\ UNCHANGED ret
    /\ requests' = Append(requests,
                          AgentRequest("agent:step", selectedSkills, messages, toolsForRun))
    /\ UNCHANGED <<toolVars, maxSteps, enableTools, step, running, error, llmFailures,
                   toolExecs, toolThrows, toolRounds, atFailure, selVars, setupVars>>

\* a backend call (of a loop step, or the single call without tools) is rejected
BackendFails ==
    /\ pc \in {"call", "text"}
    /\ \E e \in BackendErrors :
         /\ pc' = AfterBackendError(pc)
         /\ error' = IF pc' = "failed" THEN e ELSE error
         /\ atFailure' = <<llmCalls + 1, toolExecs, e>>
    /\ llmCalls' = llmCalls + 1
    /\ llmFailures' = llmFailures + 1
    /\ requests' = Append(requests,
                          IF pc = "text"
                          THEN AgentRequest("agent:text", selectedSkills, messages, NoValue)
                          ELSE AgentRequest("agent:step", selectedSkills, messages,
                                            toolsForRun))
    /\ UNCHANGED <<toolVars, maxSteps, enableTools, step, messages, toolUses, results,
                   running, ret, toolExecs, toolThrows, toolRounds, selVars, setupVars>>

\* executeTool is called for the next tool use of the round
ToolStart ==
    /\ pc = "tools"
    /\ Len(results) + Cardinality(running) < Len(toolUses)
    /\ CanStart(running)
    /\ running' = running \cup {Len(results) + Cardinality(running) + 1}
    /\ UNCHANGED <<toolVars, maxSteps, enableTools, pc, step, messages, toolUses, results,
                   ret, error, llmCalls, llmFailures, toolExecs, toolThrows, toolRounds,
                   atFailure, selVars, setupVars, requests>>

\* a pending executeTool call ends and its result is pushed; after the last one
\* of the round the results become a user message and the loop goes to its
\* next step
ToolStep ==
    /\ pc = "tools"
    /\ \E k \in running :
       LET tu == toolUses[k]
       IN  \E sh \in IF tu.name = "run_shell" THEN commands ELSE {QuietShell} :
           \E r \in {ExecuteTool(tu.name, tu.input, files, sh)} :
             LET o == ToolOutcome(tu, r)
                 rs == Append(results, o.result)
             IN  /\ r.settles
                 /\ files' = r.files
                 /\ lastCall' = [called |-> TRUE, name |-> tu.name, input |-> tu.input,
                                 before |-> files, threw |-> r.threw, out |-> r.out,
                                 log |-> r.log]
                 /\ readBack' = readBack
                 /\ commands' = commands
                 /\ running' = running \ {k}
                 /\ toolExecs' = toolExecs + 1
                 /\ toolThrows' = toolThrows + (IF r.threw THEN 1 ELSE 0)
                 /\ IF o.propagates
                    THEN /\ pc' = "failed"
                         /\ error' = r.out
                         /\ UNCHANGED <<messages, toolUses, results, step, ret, toolRounds>>
                    ELSE IF Len(rs) < Len(toolUses)
                    THEN /\ results' = rs
                         /\ UNCHANGED <<pc, messages, toolUses, step, ret, error, toolRounds>>
                    ELSE /\ messages' = PushResults(messages, rs)
                         /\ results' = <<>>
                         /\ toolUses' = <<>>
                         /\ toolRounds' = toolRounds + 1
                         /\ step' = step + 1
                         /\ pc' = IF LoopGuard(step + 1, maxSteps) THEN "call" ELSE "done"
                         /\ ret' = IF LoopGuard(step + 1, maxSteps) THEN ret ELSE Unexpected
                         /\ UNCHANGED error
    /\ UNCHANGED <<maxSteps, enableTools, llmCalls, llmFailures, atFailure, selVars,
                   setupVars, requests>>

Next == TextOnlyResponse \/ StepResponse \/ BackendFails \/ ToolStart \/ ToolStep

Spec == AgentInit /\ [][Next]_vars

(***************************************************************************)
(* runAgentOnce with selected skills that restrict the tools.              *)
(***************************************************************************)
\* a skill whose front matter has allowed-tools: Read
ReadOnlySkill ==
    [name |-> <<"r">>, title |-> <<"R">>, description |-> <<>>,
     allowedTools |-> <<<<"R", "e", "a", "d">>>>,
     skillPath |-> <<"/", "w", "/", "s", "/", "r">>, markdown |-> <<"r">>]

\* a skill whose front matter has allowed-tools: read_file glob
ReadGlobSkill ==
    [name |-> <<"g">>, title |-> <<"G">>, description |-> <<>>,
     allowedTools |-> <<NameText("read_file"), NameText("glob")>>,
     skillPath |-> <<"/", "w", "/", "s", "/", "g">>, markdown |-> <<"g">>]

RestrictingSelections == {<<>>, <<ReadOnlySkill>>, <<ReadGlobSkill>>, <<ReadOnlySkill, ReadGlobSkill>>}

GuardInit ==
    /\ selectedSkills \in RestrictingSelections
    /\ AgentEntryWithSkills
    /\ commands = AgentShellBehaviours

GuardSpec == GuardInit /\ [][Next]_vars

(***************************************************************************)
(* cli.js: main reads --max-steps and runs the agent.                      *)
(***************************************************************************)
\* JavaScript numbers: an integer, NaN, plus or minus Infinity
JsInt(n) == [kind |-> "number", n |-> n]

NaN == [kind |-> "NaN"]

Infinity(sign) == [kind |-> "Infinity", sign |-> sign]

DigitSeq == <<"0", "1", "2", "3", "4", "5", "6", "7", "8", "9">>

DigitValue(c) == (CHOOSE i \in 1..Len(DigitSeq) : DigitSeq[i] = c) - 1

\* the value of a short numeral
RECURSIVE DigitsValue(_)
DigitsValue(d) ==
    IF d = <<>> THEN 0
    ELSE DigitsValue(SubSeq(d, 1, Len(d) - 1)) * 10 + DigitValue(d[Len(d)])

\* the length of the longest prefix of s made of characters of set A
PrefixLen(s, A) ==
    CHOOSE k \in 0..Len(s) :
        /\ \A i \in 1..k : s[i] \in A
        /\ k = Len(s) \/ s[k + 1] \notin A

\* a numeral of more digits than this, leading zeros apart, denotes a number
\* beyond the largest double
MaxFiniteDigits == 309

\* Number.parseInt(s, 10): leading white space is skipped, then a sign, then
\* the longest run of digits is read; no digit gives NaN, and a value beyond
\* the range of a double gives Infinity.  Numerals of 16 to 309 digits, which
\* a double rounds, are not among the arguments of the model.
ParseInt(s) ==
    LET t == SubSeq(s, PrefixLen(s, {" "}) + 1, Len(s))
        negative == t # <<>> /\ t[1] = "-"
        u == IF t # <<>> /\ t[1] \in {"-", "+"} THEN Tail(t) ELSE t
        d == SubSeq(u, 1, PrefixLen(u, Digits))
        significant == SubSeq(d, PrefixLen(d, {"0"}) + 1, Len(d))
    IN  IF d = <<>> THEN NaN
        ELSE IF Len(significant) > MaxFiniteDigits
             THEN Infinity(IF negative THEN -1 ELSE 1)
        ELSE JsInt((IF negative THEN -1 ELSE 1) * DigitsValue(significant))

\* x || 0
OrZero(x) == IF x = NaN \/ x = JsInt(0) THEN JsInt(0) ELSE x

\* Math.max(0, x), x not NaN
MathMaxZero(x) ==
    IF x.kind = "Infinity" THEN (IF x.sign = 1 THEN x ELSE JsInt(0))
    ELSE IF x.n < 0 THEN JsInt(0) ELSE x

\* Math.max(0, Number.parseInt(opts.maxSteps, 10) || 0)
MaxStepsOption(arg) == MathMaxZero(OrZero(ParseInt(arg)))

\* a numeral of 310 nines
LongNumeral == [i \in 1..(MaxFiniteDigits + 1) |-> "9"]

\* the values of --max-steps: the default, small numbers, a negative number,
\* no number, digits followed by a letter, a signed and a padded number, and
\* a numeral beyond the range of a double
MaxStepsArgs ==
    {<<"8">>, <<"0">>, <<"1">>, <<"2">>, <<"-", "3">>, <<"a", "b", "c">>, <<>>,
     <<" ", "1">>, <<"1", "x">>, <<"+", "2">>, <<"0", "0", "2">>, LongNumeral}

CliInit ==
    /\ files \in AgentInitialFiles
    /\ lastCall = NoCall
    /\ readBack = NoRead
    /\ commands = AgentShellBehaviours
    /\ maxSteps = 0
    /\ enableTools \in BOOLEAN
    /\ pc = "idle" /\ step = 0
    /\ messages = <<>> /\ toolUses = <<>> /\ results = <<>> /\ running = {}
    /\ ret = NoValue /\ error = NoValue
    /\ llmCalls = 0 /\ llmFailures = 0 /\ toolExecs = 0 /\ toolThrows = 0
    /\ toolRounds = 0 /\ atFailure = NoValue
    /\ prompt = <<>> /\ skills = <<>> /\ apiKey = TRUE /\ spc = "idle"
    /\ match = NoValue /\ routerCalls = 0 /\ routerReply = NoValue
    /\ localSkills = <<>> /\ externalSkills = <<>> /\ ranking = NoRanking
    /\ cli \in {[parsed |-> FALSE, arg |-> a] : a \in MaxStepsArgs}
    /\ sync = NoSync
    /\ SetupIdle
    /\ requests = <<>>

\* main computes maxSteps from the option and hands it to runAgentOnce, which
\* builds its first message and its tools; the run is followed for maxSteps up
\* to MaxStepsBound
CliMain ==
    /\ ~cli.parsed
    /\ pc = "idle"
    /\ \E v \in {MaxStepsOption(cli.arg)} :
         /\ cli' = [parsed |-> TRUE, arg |-> cli.arg, maxSteps |-> v]
         /\ IF v.kind = "number" /\ v.n <= MaxStepsBound
            THEN /\ maxSteps' = v.n
                 /\ pc' = EntryPc(enableTools, v.n)
                 /\ ret' = IF enableTools /\ ~LoopGuard(0, v.n) THEN Unexpected
                           ELSE NoValue
                 /\ messages' = <<Message("user", <<>>)>>
                 /\ allowedTools' = AllowedFromSkills(<<>>)
                 /\ toolsForRun' = IF enableTools
                                   THEN RestrictTools(AllowedFromSkills(<<>>))
                                   ELSE NoValue
            ELSE UNCHANGED <<maxSteps, pc, ret, messages, allowedTools, toolsForRun>>
    /\ UNCHANGED <<toolVars, enableTools, step, toolUses, results, running, error,
                   llmCalls, llmFailures, toolExecs, toolThrows, toolRounds, atFailure,
                   prompt, skills, apiKey, spc, match, routerCalls, routerReply,
                   localSkills, externalSkills, ranking, sync, selectedSkills, requests>>

CliNext ==
    \/ CliMain
    \/ TextOnlyResponse \/ StepResponse \/ BackendFails \/ ToolStart \/ ToolStep

CliSpec == CliInit /\ [][CliNext]_vars

\* every backend call and every tool call that is pending ends
FairSpec == Spec /\ WF_vars(Next)

\* runs whose shell commands outlast the timeout: commands that end on SIGTERM,
\* or commands that ignore it
KillInit ==
    /\ AgentEntry
    /\ commands \in {AgentShellBehaviours, {SlowCommand}, {StubbornCommand}}

\* every backend call ends, and every tool call whose promise settles ends
KillSpec == KillInit /\ [][Next]_vars /\ WF_vars(Next)

(***************************************************************************)
(* Properties of the agent loop.                                           *)
(***************************************************************************)
Terminated == pc \in {"done", "failed"}

LastMessage == messages[Len(messages)]

\* the run ended on an assistant response that asks for tools
EndedOnToolRequest ==
    /\ pc = "done"
    /\ enableTools
    /\ LastMessage.role = "assistant"
    /\ \E i \in 1..Len(LastMessage.content) : LastMessage.content[i].type = "tool_use"

\* the indexes of the user messages that hold tool results
ResultMessages == {i \in 2..Len(messages) : messages[i].role = "user"}

\* the number of elements of sequence q that satisfy Test
Count(q, Test(_)) == Cardinality({i \in 1..Len(q) : Test(q[i])})

\* the sum of f[x] over the x in S
RECURSIVE Sum(_, _)
Sum(f, S) ==
    IF S = {} THEN 0
    ELSE LET x == CHOOSE y \in S : TRUE IN f[x] + Sum(f, S \ {x})

\* tool results in the conversation and in the round under way
AllResults(Test(_)) ==
    Sum([i \in ResultMessages |-> Count(messages[i].content, Test)], ResultMessages)
      + Count(results, Test)

\* C2: with tools enabled a run issues at most maxSteps + 1 backend calls and
\* completes at most maxSteps rounds of tool execution, and it terminates
\* when every pending backend call and tool call ends
C2_BoundedCallsAndTermination ==
    /\ [](enableTools => llmCalls <= maxSteps + 1 /\ toolRounds <= maxSteps)
    /\ <>Terminated

\* C2 witness: a finished run that used its whole budget of a limit of at
\* least one step
C2_Witness ==
    /\ pc = "done"
    /\ enableTools
    /\ maxSteps >= 1
    /\ llmCalls = maxSteps + 1
    /\ toolRounds = maxSteps

\* C3: tools are never executed for the response of step maxSteps: a run that
\* ends on a response asking for tools returns that response's text, when it
\* has one, followed by the notice naming maxSteps, after maxSteps + 1 backend
\* calls, having executed only the tool calls of the earlier responses; with
\* maxSteps = 0 that is one backend call and no tool execution
C3_StepLimitStopsAtOnce ==
    /\ pc = "tools" => step < maxSteps
    /\ EndedOnToolRequest =>
         /\ LET text == ExtractText(LastMessage.content)
            IN  ret = IF text = <<>> THEN Notice(maxSteps)
                      ELSE text \o <<"\n\n">> \o Notice(maxSteps)
         /\ llmCalls = maxSteps + 1
         /\ toolUses = <<>>
         /\ toolExecs =
              LET earlier == {i \in 1..Len(messages) - 1 : messages[i].role = "assistant"}
              IN  Sum([i \in earlier |-> Len(ToolUsesOf(messages[i].content))], earlier)
    /\ pc = "done" /\ enableTools /\ maxSteps = 0 => llmCalls = 1 /\ toolExecs = 0

\* C3 witness: with maxSteps = 0 the only response has text and asks for tools
C3_Witness ==
    /\ EndedOnToolRequest
    /\ maxSteps = 0
    /\ ExtractText(LastMessage.content) # <<>>
    /\ llmCalls = 1
    /\ toolExecs = 0

\* C4: a tool call that throws never ends the run: the run fails only on a
\* rejected backend call, every throw has become one is_error tool result,
\* every tool call of a response that reached execution is executed, and
\* after a round the next backend call is issued
C4_ToolFailureNeverAborts ==
    /\ pc = "failed" => llmFailures > 0
    /\ AllResults(LAMBDA x : x.is_error) = toolThrows
    /\ AllResults(LAMBDA x : TRUE) = toolExecs
    /\ \A i \in ResultMessages :
         Len(messages[i].content) = Len(ToolUsesOf(messages[i - 1].content))
    /\ pc = "tools" => Len(results) < Len(toolUses)
    /\ Len(messages) > 1 /\ LastMessage.role = "user" =>
         \/ pc = "call"
         \/ pc = "failed" /\ atFailure[1] = llmCalls /\ llmCalls = toolRounds + 1

\* C4 witness: the first tool call of a response failed, the second one was
\* executed all the same, and a later backend call has returned
C4_Witness ==
    /\ Len(messages) >= 4
    /\ messages[3].role = "user"
    /\ Len(messages[3].content) = 2
    /\ messages[3].content[1].is_error
    /\ llmCalls >= 2
    /\ pc = "done"

\* C9: the text a run returns is never empty
C9_ReturnedTextNonEmpty == pc = "done" => ret # <<>>

\* C10: a rejected backend call ends the run with that error: it is the only
\* rejected call and the last backend call of the run, nothing is returned,
\* and no tool is executed after it
C10_BackendFailureIsFatal ==
    /\ llmFailures > 0 =>
         /\ pc = "failed"
         /\ llmFailures = 1
         /\ error = atFailure[3]
         /\ ret = NoValue
    /\ pc = "failed" => llmCalls = atFailure[1] /\ toolExecs = atFailure[2]

\* C10 witness: the second backend call of a run is rejected after a tool round
C10_Witness ==
    /\ pc = "failed"
    /\ llmCalls = 2
    /\ toolExecs >= 1
    /\ error \in BackendErrors

(***************************************************************************)
(* skill-match.js: tokens and scores.  A score is a fraction <<n, d>> with *)
(* d > 0, compared exactly.                                                *)
(***************************************************************************)
STOPWORDS ==
    {<<"a">>,
     <<"a", "n">>,
     <<"a", "n", "d">>,
     <<"a", "r", "e">>,
     <<"b", "e">>,
     <<"b", "u", "t">>,
     <<"c", "a", "n">>,
     <<"d", "o">>,
     <<"f", "o", "r">>,
     <<"f", "r", "o", "m">>,
     <<"g", "e", "n", "e", "r", "a", "t", "e">>,
     <<"g", "e", "t">>,
     <<"h", "o", "w">>,
     <<"i">>,
     <<"i", "n">>,
     <<"i", "s">>,
     <<"i", "t">>,
     <<"m", "a", "k", "e">>,
     <<"m", "e">>,
     <<"m", "y">>,
     <<"o", "f">>,
     <<"o", "n">>,
     <<"p", "l", "e", "a", "s", "e">>,
     <<"t", "h", "e">>,
     <<"t", "h", "e", "n">>,
     <<"t", "o">>,
     <<"w", "h", "a", "t">>,
     <<"w", "i", "t", "h">>,
     <<"y", "o", "u">>}

\* tokenize(s)
Tokenize(s) ==
    SelectSeq(SplitWhitespace(Trim(ReplaceNonAlnumRuns(ToLowerCase(s)))),
              LAMBDA t : t \notin STOPWORDS)

\* fractions
RatLess(a, b) == a[1] * b[2] < b[1] * a[2]

RatGeq(a, b) == ~RatLess(a, b)

RatMax(a, b) == IF RatLess(a, b) THEN b ELSE a

\* Math.min(1, score)
RatMin1(a) == IF a[1] > a[2] THEN <<1, 1>> ELSE a

\* score + pct / 100
RatAddPct(a, pct) == <<a[1] * 100 + pct * a[2], a[2] * 100>>

\* jaccard(a, b) of two token sets
Jaccard(a, b) ==
    IF a = {} \/ b = {} THEN <<0, 1>>
    ELSE LET inter == Cardinality(a \cap b)
         IN  <<inter, Cardinality(a) + Cardinality(b) - inter>>

NameBonus == 25
LongTokenBonus == 5
NameTokenBonus == 10
LongTokenLen == 7
NameTokenLen == 4

\* the bonuses without the one for the name in the prompt
BonusPctNoName(p, s, promptText, skill) ==
    Sum([t \in p |->
           (IF Len(t) >= LongTokenLen /\ t \in s THEN LongTokenBonus ELSE 0)
             + (IF skill.name # <<>> /\ Includes(ToLowerCase(skill.name), t)
                   /\ Len(t) >= NameTokenLen
                THEN NameTokenBonus ELSE 0)], p)

\* the bonuses heuristicScore adds to the Jaccard score, in hundredths
BonusPct(p, s, promptText, skill) ==
    (IF skill.name # <<>> /\ Includes(ToLowerCase(promptText), skill.name)
     THEN NameBonus ELSE 0)
      + Sum([t \in p |->
               (IF Len(t) >= LongTokenLen /\ t \in s THEN LongTokenBonus ELSE 0)
                 + (IF skill.name # <<>> /\ Includes(ToLowerCase(skill.name), t)
                       /\ Len(t) >= NameTokenLen
                    THEN NameTokenBonus ELSE 0)], p)

\* a score that is not clamped to 1
HeuristicScoreUnclamped(promptText, skill) ==
    LET p == Range(Tokenize(promptText))
        s == Range(Tokenize(skill.name \o <<" ">> \o skill.title \o <<" ">>
                              \o skill.description))
    IN  RatAddPct(Jaccard(p, s), BonusPct(p, s, promptText, skill))

\* heuristicScore(prompt, skill)
HeuristicScore(promptText, skill) ==
    LET p == Range(Tokenize(promptText))
        s == Range(Tokenize(skill.name \o <<" ">> \o skill.title \o <<" ">>
                              \o skill.description))
    IN  RatMin1(RatAddPct(Jaccard(p, s), BonusPct(p, s, promptText, skill)))

(***************************************************************************)
(* skill-match.js: the ranking.                                            *)
(***************************************************************************)
GateHundredths == 12
RatioTenths == 6
MaxCandidates == 8

\* the gate 0.12
Gate == <<GateHundredths, 100>>

\* a threshold without the gate 0.12
ThresholdNoGate(best) == <<best[1] * RatioTenths, best[2] * 10>>

\* a threshold that is the gate 0.12 alone
ThresholdGateOnly(best) == Gate

\* Math.max(0.12, best * 0.6)
Threshold(best) == RatMax(Gate, <<best[1] * RatioTenths, best[2] * 10>>)

\* a sort step that puts the entry in twice
InsertByScoreTwice(sorted, x) ==
    LET k == Cardinality({i \in 1..Len(sorted) : RatGeq(sorted[i].score, x.score)})
    IN  SubSeq(sorted, 1, k) \o <<x, x>> \o SubSeq(sorted, k + 1, Len(sorted))

\* a sort step that puts the entry before the entries of the same score
InsertByScoreBeforeTies(sorted, x) ==
    LET k == Cardinality({i \in 1..Len(sorted) : RatLess(x.score, sorted[i].score)})
    IN  SubSeq(sorted, 1, k) \o <<x>> \o SubSeq(sorted, k + 1, Len(sorted))

\* sorted, a sequence by descending score, with x put after every entry that
\* scores at least as much: one step of the stable sort
InsertByScore(sorted, x) ==
    LET k == Cardinality({i \in 1..Len(sorted) : RatGeq(sorted[i].score, x.score)})
    IN  SubSeq(sorted, 1, k) \o <<x>> \o SubSeq(sorted, k + 1, Len(sorted))

\* scored.sort((a, b) => b.score - a.score)
RECURSIVE SortByScore(_, _, _)
SortByScore(q, i, sorted) ==
    IF i > Len(q) THEN sorted
    ELSE SortByScore(q, i + 1, InsertByScore(sorted, q[i]))

\* a shortlist that is not cut
SliceUncapped(q, n) == q

\* q.slice(0, n)
Slice(q, n) == SubSeq(q, 1, Min(n, Len(q)))

\* rankSkillsForPrompt({ prompt, skills })
RankSkillsForPrompt(promptText, skillList) ==
    LET scored == SortByScore([i \in 1..Len(skillList) |->
                                 [skill |-> skillList[i],
                                  score |-> HeuristicScore(promptText, skillList[i])]],
                              1, <<>>)
        best == IF scored = <<>> THEN <<0, 1>> ELSE scored[1].score
    IN  [scored |-> scored,
         best |-> best,
         topCandidates |->
             Slice(SelectSeq(scored, LAMBDA x : RatGeq(x.score, Threshold(best))),
                   MaxCandidates)]

(***************************************************************************)
(* skill-match.js: the router.  A reply text is a sequence of pieces: the  *)
(* braces, the comma, white space, prose and whole members of an object.   *)
(***************************************************************************)
Null == [null |-> TRUE]

SelChangelog == "\"selected\": [\"changelog\"]"
SelNone == "\"selected\": []"
SelOther == "\"selected\": [\"other\"]"
SelBoth == "\"selected\": [\"release-notes\", \"changelog\"]"
SelBlank == "\"selected\": [\"\", \"release-notes\"]"
SelOtherToo == "\"selected\": [\"other\", \"changelog\"]"
SelString == "\"selected\": \"changelog\""
SelTwice == "\"selected\": [\"changelog\", \"release-notes\", \"changelog\"]"
Reason == "\"reason\": \"r\""
Prose == "Sure:"

\* the members the model's replies are made of: key "selected" with its value,
\* or key "reason"
JsonMember(piece) ==
    CASE piece = SelChangelog -> [key |-> "selected", isArray |-> TRUE,
                                  items |-> <<<<"c", "h", "a", "n", "g", "e", "l", "o", "g">>>>]
      [] piece = SelNone -> [key |-> "selected", isArray |-> TRUE, items |-> <<>>]
      [] piece = SelOther -> [key |-> "selected", isArray |-> TRUE,
                              items |-> <<<<"o", "t", "h", "e", "r">>>>]
      [] piece = SelBoth -> [key |-> "selected", isArray |-> TRUE,
                             items |-> <<<<"r", "e", "l", "e", "a", "s", "e", "-", "n", "o", "t", "e", "s">>,
                                         <<"c", "h", "a", "n", "g", "e", "l", "o", "g">>>>]
      [] piece = SelBlank -> [key |-> "selected", isArray |-> TRUE,
                              items |-> <<<<>>, <<"r", "e", "l", "e", "a", "s", "e", "-", "n", "o", "t", "e", "s">>>>]
      [] piece = SelOtherToo -> [key |-> "selected", isArray |-> TRUE,
                                 items |-> <<<<"o", "t", "h", "e", "r">>,
                                             <<"c", "h", "a", "n", "g", "e", "l", "o", "g">>>>]
      [] piece = SelString -> [key |-> "selected", isArray |-> FALSE, items |-> <<>>]
      [] piece = SelTwice -> [key |-> "selected", isArray |-> TRUE,
                              items |-> <<<<"c", "h", "a", "n", "g", "e", "l", "o", "g">>,
                                          <<"r", "e", "l", "e", "a", "s", "e", "-", "n", "o", "t", "e", "s">>,
                                          <<"c", "h", "a", "n", "g", "e", "l", "o", "g">>>>]
      [] piece = Reason -> [key |-> "reason", isArray |-> FALSE, items |-> <<<<"r">>>>]
      [] OTHER -> Null

IsMember(piece) == JsonMember(piece) # Null

\* the last member of body with the key, or Null
MemberFor(body, key) ==
    LET at == {i \in 1..Len(body) : IsMember(body[i]) /\ JsonMember(body[i]).key = key}
    IN  IF at = {} THEN Null
        ELSE JsonMember(body[CHOOSE i \in at : \A j \in at : i >= j])

\* JSON.parse(raw) of a text that starts with "{" and ends with "}": the object,
\* or Null where JSON.parse throws
JsonParse(raw) ==
    LET body == SelectSeq(SubSeq(raw, 2, Len(raw) - 1),
                          LAMBDA piece : piece \notin {" ", "\n"})
        wellFormed ==
            \/ body = <<>>
            \/ /\ Len(body) % 2 = 1
               /\ \A i \in 1..Len(body) :
                    IF i % 2 = 1 THEN IsMember(body[i]) ELSE body[i] = ","
    IN  IF ~wellFormed THEN Null
        ELSE [selected |-> MemberFor(body, "selected"),
              reason |-> MemberFor(body, "reason")]

\* the brace matching of extractFirstJsonObject from position i on
RECURSIVE MatchBraces(_, _, _, _)
MatchBraces(s, start, i, depth) ==
    IF i > Len(s) THEN Null
    ELSE IF s[i] = "{" THEN MatchBraces(s, start, i + 1, depth + 1)
    ELSE IF s[i] = "}"
         THEN IF depth - 1 = 0 THEN JsonParse(SubSeq(s, start, i))
              ELSE MatchBraces(s, start, i + 1, depth - 1)
    ELSE MatchBraces(s, start, i + 1, depth)

\* extractFirstJsonObject(text)
ExtractFirstJsonObject(text) ==
    LET braces == {i \in 1..Len(text) : text[i] = "{"}
    IN  IF braces = {} THEN Null
        ELSE LET start == CHOOSE i \in braces : \A j \in braces : i <= j
             IN  MatchBraces(text, start, start, 0)

\* String(json.reason || "")
ReasonOf(json) == IF json.reason = Null THEN <<>> ELSE json.reason.items[1]

\* a router that takes a selected field that is no array, or none, as no names
RouteWithClaudeNoArrayCheck(content) ==
    LET json == ExtractFirstJsonObject(ExtractText(content))
    IN  IF json = Null THEN Null
        ELSE [selected |-> IF json.selected = Null THEN <<>>
                           ELSE SelectSeq(json.selected.items, LAMBDA x : x # <<>>),
              reason |-> ReasonOf(json)]

\* what routeWithClaude returns for the content of the backend's response
RouteWithClaude(content) ==
    LET json == ExtractFirstJsonObject(ExtractText(content))
    IN  IF json = Null THEN Null
        ELSE IF json.selected = Null THEN Null
        ELSE IF ~json.selected.isArray THEN Null
        ELSE [selected |-> SelectSeq(json.selected.items, LAMBDA x : x # <<>>),
              reason |-> ReasonOf(json)]

(***************************************************************************)
(* skill-match.js: pickSkillsForPrompt.                                    *)
(***************************************************************************)
\* the content of a SKILL.md: front matter with name and description, a
\* heading with the title, the instructions
SkillMarkdown(name, title, description) ==
    <<"---\nname: ">> \o name \o <<"\ndescription: ">> \o description
        \o <<"\n---\n# ">> \o title \o <<"\n", "Instructions of the skill.\n">>

\* a skill as discoverSkills reads it from the SKILL.md in the folder of its name
Skill(name, title, description) ==
    [name |-> name, title |-> title, description |-> description,
     allowedTools |-> <<>>,
     skillPath |-> PathResolve(RootDirAbs, SkillRel(name)),
     markdown |-> Utf8Decode(Utf8Encode(SkillMarkdown(name, title, description)))]

\* candidateSkills[0] of an empty array
UndefinedSkill == [undefined |-> TRUE]

\* q[0]
First(q) == IF q = <<>> THEN UndefinedSkill ELSE q[1]

\* topCandidates.map((x) => x.skill)
CandidateSkills(promptText, skillList) ==
    LET top == RankSkillsForPrompt(promptText, skillList).topCandidates
    IN  [i \in 1..Len(top) |-> top[i].skill]

\* the result for an empty catalog
EmptyCatalogMatch ==
    [selectedSkills |-> <<>>, routerDecision |-> Null, matchMethod |-> "undefined"]

NoneMatch == [selectedSkills |-> <<>>, routerDecision |-> Null, matchMethod |-> "none"]

NoMatchGateMissing(candidateSkills, best) == FALSE

\* candidateSkills.length === 0 || best < 0.12
NoMatchGate(candidateSkills, best) ==
    Len(candidateSkills) = 0 \/ RatLess(best, Gate)

HeuristicMatchWholeShortlist(candidateSkills) ==
    [selectedSkills |-> candidateSkills, routerDecision |-> Null,
     matchMethod |-> "heuristic"]

\* the top heuristic match
HeuristicMatch(candidateSkills) ==
    [selectedSkills |-> <<First(candidateSkills)>>, routerDecision |-> Null,
     matchMethod |-> "heuristic"]

FilterSelectedKeepsAll(candidateSkills, selected) == candidateSkills

\* candidateSkills.filter((s) => selectedSet.has(s.name))
FilterSelected(candidateSkills, selected) ==
    SelectSeq(candidateSkills, LAMBDA s : s.name \in Range(selected))

\* pickSkillsForPrompt up to its call of the router: the result it returns, or
\* that it goes on to the router
PickBeforeRouter(promptText, skillList, key) ==
    LET rank == RankSkillsForPrompt(promptText, skillList)
        candidateSkills == CandidateSkills(promptText, skillList)
    IN  IF Len(skillList) = 0 THEN [returns |-> TRUE, match |-> EmptyCatalogMatch]
        ELSE IF NoMatchGate(candidateSkills, rank.best)
             THEN [returns |-> TRUE, match |-> NoneMatch]
        ELSE IF ~key THEN [returns |-> TRUE, match |-> HeuristicMatch(candidateSkills)]
        ELSE [returns |-> FALSE, match |-> NoValue]

\* a coordinator that takes the top heuristic match when the router's names
\* select no candidate
PickAfterRouterFallbackOnEmpty(candidateSkills, routerDecision) ==
    IF routerDecision = Null THEN HeuristicMatch(candidateSkills)
    ELSE IF FilterSelected(candidateSkills, routerDecision.selected) = <<>>
         THEN HeuristicMatch(candidateSkills)
    ELSE [selectedSkills |-> FilterSelected(candidateSkills, routerDecision.selected),
          routerDecision |-> routerDecision,
          matchMethod |-> "router"]

\* pickSkillsForPrompt after the router's decision
PickAfterRouter(candidateSkills, routerDecision) ==
    IF routerDecision = Null THEN HeuristicMatch(candidateSkills)
    ELSE [selectedSkills |-> FilterSelected(candidateSkills, routerDecision.selected),
          routerDecision |-> routerDecision,
          matchMethod |-> "router"]

\* where pickSkillsForPrompt is after the router's backend call has failed:
\* neither routeWithClaude nor pickSkillsForPrompt catches the rejection
AfterRouterError == "threw"

\* the catalog of the model
Changelog ==
    Skill(<<"c", "h", "a", "n", "g", "e", "l", "o", "g">>,
          <<"C", "h", "a", "n", "g", "e", "l", "o", "g">>,
          <<"r", "e", "l", "e", "a", "s", "e", " ", "n", "o", "t", "e", "s", " ", "f",
            "r", "o", "m", " ", "g", "i", "t", " ", "c", "o", "m", "m", "i", "t", "s">>)

Deploy ==
    Skill(<<"d", "e", "p", "l", "o", "y">>,
          <<"D", "e", "p", "l", "o", "y">>,
          <<"d", "e", "p", "l", "o", "y", " ", "a", "p", "p", " ", "t", "o", " ", "s",
            "e", "r", "v", "e", "r">>)

ReleaseNotes ==
    Skill(<<"r", "e", "l", "e", "a", "s", "e", "-", "n", "o", "t", "e", "s">>,
          <<"R", "e", "l", "e", "a", "s", "e", " ", "N", "o", "t", "e", "s">>,
          <<"w", "r", "i", "t", "e", " ", "r", "e", "l", "e", "a", "s", "e", " ", "n",
            "o", "t", "e", "s">>)

\* ten skills on one subject, named n0 to n9, with three descriptions in turn
NotesDescriptions ==
    <<<<"r", "e", "l", "e", "a", "s", "e", " ", "n", "o", "t", "e", "s", " ", "c", "o",
        "m", "m", "i", "t", "s">>,
      <<"w", "r", "i", "t", "e", " ", "r", "e", "l", "e", "a", "s", "e", " ", "n", "o",
        "t", "e", "s", " ", "g", "i", "t", " ", "c", "o", "m", "m", "i", "t", "s">>,
      <<"r", "e", "l", "e", "a", "s", "e", " ", "n", "o", "t", "e", "s", " ", "g", "i",
        "t", " ", "c", "o", "m", "m", "i", "t", "s">>>>

NotesSkill(k) ==
    Skill(<<"n", ToString(k)>>, <<"N">>, NotesDescriptions[(k % 3) + 1])

NotesCatalog == [i \in 1..10 |-> NotesSkill(i - 1)]

Catalogs ==
    {<<>>, <<Changelog>>, <<Changelog, Deploy>>, <<Changelog, Deploy, ReleaseNotes>>,
     NotesCatalog}

Prompts ==
    {<<>>,
     <<"h", "e", "l", "l", "o", " ", "t", "h", "e", "r", "e">>,
     <<"g", "i", "t", " ", "p", "u", "s", "h", " ", "o", "r", "i", "g", "i", "n", " ",
       "m", "a", "i", "n", " ", "b", "r", "a", "n", "c", "h", " ", "n", "o", "w">>,
     <<"g", "e", "n", "e", "r", "a", "t", "e", " ", "a", " ", "c", "h", "a", "n", "g",
       "e", "l", "o", "g">>,
     <<"w", "r", "i", "t", "e", " ", "r", "e", "l", "e", "a", "s", "e", " ", "n", "o",
       "t", "e", "s", " ", "f", "r", "o", "m", " ", "g", "i", "t", " ", "c", "o", "m",
       "m", "i", "t", "s">>,
     <<"D", "e", "p", "l", "o", "y", " ", "t", "h", "e", " ", "a", "p", "p">>}

\* the contents of the responses the backend gives the router
RouterReplies ==
    {<<TextBlock(<<"{", SelChangelog, ",", Reason, "}">>)>>,
     <<TextBlock(<<"{", SelNone, ",", Reason, "}">>)>>,
     <<TextBlock(<<"{", SelOther, ",", Reason, "}">>)>>,
     <<TextBlock(<<"{", SelBoth, "}">>)>>,
     <<TextBlock(<<"{", SelBlank, "}">>)>>,
     <<TextBlock(<<"{", SelOtherToo, ",", Reason, "}">>)>>,
     <<TextBlock(<<"{", SelTwice, ",", Reason, "}">>)>>,
     <<TextBlock(<<"{", SelString, ",", Reason, "}">>)>>,
     <<TextBlock(<<"{", Reason, "}">>)>>,
     <<TextBlock(<<Prose, " ", "{", SelChangelog, "}", " ", Prose>>)>>,
     <<TextBlock(<<"{", SelNone, "}", "{", SelChangelog, "}">>)>>,
     <<TextBlock(<<"{", SelChangelog, ",">>), TextBlock(<<Reason, "}">>)>>,
     <<TextBlock(<<"{", "{", SelChangelog, "}", "}">>)>>,
     <<TextBlock(<<"{", SelChangelog, Reason, "}">>)>>,
     <<TextBlock(<<"{", SelChangelog>>)>>,
     <<TextBlock(<<Prose>>)>>,
     <<TextBlock(<<>>)>>,
     <<>>}

\* the system prompt of the router
RouterSystem ==
    <<"You are a router that selects relevant Agent Skills for a user prompt.\n", "...">>

\* JSON.stringify of a string: quoted, with the quote, the backslash and the
\* line feed escaped
JsonString(t) ==
    <<"\"">> \o [i \in 1..Len(t) |-> CASE t[i] = "\"" -> "\\\""
                                       [] t[i] = "\\" -> "\\\\"
                                       [] t[i] = "\n" -> "\\n"
                                       [] OTHER -> t[i]]
             \o <<"\"">>

\* JSON.stringify of one candidate: { name, title, description } and no more
CandidateJson(c) ==
    <<"{", "\"name\": ">> \o JsonString(c.name) \o <<",", "\"title\": ">>
        \o JsonString(c.title) \o <<",", "\"description\": ">>
        \o JsonString(c.description) \o <<"}">>

\* JSON.stringify(user, null, 2) without its white space
RouterUser(promptText, candidates) ==
    <<"{", "\"prompt\": ">> \o JsonString(promptText) \o <<",", "\"candidates\": ", "[">>
        \o Join([i \in 1..Len(candidates) |-> CandidateJson(candidates[i])], <<",">>)
        \o <<"]", "}">>

\* the request of the createClaudeMessage call of routeWithClaude
RouterRequest(promptText, candidates) ==
    [purpose |-> "router", system |-> RouterSystem,
     messages |-> <<Message("user", RouterUser(promptText, candidates))>>,
     tools |-> NoValue]

SelectInit ==
    /\ ToolsIdle
    /\ AgentIdle
    /\ SetupIdle
    /\ requests = <<>>
    /\ CatalogIdle
    /\ prompt \in Prompts
    /\ skills \in Catalogs
    /\ apiKey \in BOOLEAN
    /\ spc = "start"
    /\ match = NoValue
    /\ routerCalls = 0
    /\ routerReply = NoValue

\* pickSkillsForPrompt from its entry to a return or to the router's backend call
PickStart ==
    /\ spc = "start"
    /\ \E r \in {PickBeforeRouter(prompt, skills, apiKey)} :
         IF r.returns
         THEN spc' = "returned" /\ match' = r.match /\ routerCalls' = routerCalls
         ELSE spc' = "routing" /\ match' = match /\ routerCalls' = routerCalls + 1
    /\ requests' = IF PickBeforeRouter(prompt, skills, apiKey).returns THEN requests
                   ELSE Append(requests,
                               RouterRequest(prompt, CandidateSkills(prompt, skills)))
    /\ UNCHANGED <<prompt, skills, apiKey, routerReply, catalogVars, toolVars, agentVars,
                   setupVars>>

\* the router's backend call resolves
RouterResponds ==
    /\ spc = "routing"
    /\ \E content \in RouterReplies :
         /\ routerReply' = [failed |-> FALSE, content |-> content, error |-> <<>>]
         /\ match' = PickAfterRouter(CandidateSkills(prompt, skills),
                                     RouteWithClaude(content))
    /\ spc' = "returned"
    /\ UNCHANGED <<prompt, skills, apiKey, routerCalls, catalogVars, toolVars, agentVars,
                   setupVars, requests>>

\* the router's backend call rejects
RouterFails ==
    /\ spc = "routing"
    /\ \E e \in BackendErrors :
         routerReply' = [failed |-> TRUE, content |-> <<>>, error |-> e]
    /\ spc' = AfterRouterError
    /\ UNCHANGED <<prompt, skills, apiKey, match, routerCalls, catalogVars, toolVars,
                   agentVars, setupVars, requests>>

SelectNext == PickStart \/ RouterResponds \/ RouterFails

SelectSpec == SelectInit /\ [][SelectNext]_vars

(***************************************************************************)
(* rankSkillsForPrompt on its own: one call on a prompt and a catalog.     *)
(***************************************************************************)
\* a skill whose words are all words of the prompt "deploy app"
DeployApp ==
    Skill(<<"d", "e", "p", "l", "o", "y">>, <<"D", "e", "p", "l", "o", "y">>, <<"d", "e", "p", "l", "o", "y", " ", "a", "p", "p">>)

\* a skill whose name, taken from the front matter, has an upper-case letter
DeployUpper ==
    Skill(<<"D", "e", "p", "l", "o", "y">>, <<"D", "e", "p", "l", "o", "y">>,
          <<"d", "e", "p", "l", "o", "y", " ", "a", "p", "p", " ", "t", "o", " ", "s", "e", "r", "v", "e", "r">>)

\* a skill whose folder name normalizeName reduces to nothing
Nameless ==
    Skill(<<>>, <<"N", "o", "t", "e", "s">>, <<"r", "e", "l", "e", "a", "s", "e", " ", "n", "o", "t", "e", "s">>)

RankCatalogs ==
    {<<>>, <<Changelog>>, <<Deploy>>, <<DeployApp>>, <<DeployUpper>>, <<Nameless>>,
     <<Changelog, Deploy>>, <<Changelog, Deploy, ReleaseNotes>>, NotesCatalog}

RankPrompts ==
    Prompts \cup {<<"d", "e", "p", "l", "o", "y", " ", "a", "p", "p">>,
                  <<"p", "l", "e", "a", "s", "e", " ", "m", "a", "k", "e", " ", "i", "t">>,
                  <<"d", "e", "p", "l", "o", "y", " ", "r", "e", "l", "e", "a", "s", "e", " ", "n", "o", "t", "e", "s">>}

RankInit ==
    /\ ToolsIdle
    /\ AgentIdle
    /\ SetupIdle
    /\ requests = <<>>
    /\ prompt \in RankPrompts
    /\ skills \in RankCatalogs
    /\ apiKey = FALSE /\ spc = "idle"
    /\ match = NoValue /\ routerCalls = 0 /\ routerReply = NoValue
    /\ CatalogIdle

\* a call of rankSkillsForPrompt({ prompt, skills })
RankCall ==
    /\ ~ranking.called
    /\ ranking' = [called |-> TRUE, result |-> RankSkillsForPrompt(prompt, skills),
                   second |-> NoRanking]
    /\ UNCHANGED <<prompt, skills, apiKey, spc, match, routerCalls, routerReply,
                   localSkills, externalSkills, cliVars, toolVars, agentVars, setupVars,
                   requests>>

\* the ranking pickSkillsForPrompt computes again for the same prompt and catalog
RankAgain ==
    /\ ranking.called
    /\ ~ranking.second.called
    /\ ranking' = [ranking EXCEPT
                     !.second = [called |-> TRUE,
                                 result |-> RankSkillsForPrompt(prompt, skills)]]
    /\ UNCHANGED <<prompt, skills, apiKey, spc, match, routerCalls, routerReply,
                   localSkills, externalSkills, cliVars, toolVars, agentVars, setupVars,
                   requests>>

RankNext == RankCall \/ RankAgain

RankSpec == RankInit /\ [][RankNext]_vars

(***************************************************************************)
(* cli.js: mergeSkillsPreferLocal.                                         *)
(***************************************************************************)
\* the place of a lower-case letter in the alphabet
LetterRank(c) == CHOOSE i \in 1..Len(LowerOfUpper) : LowerOfUpper[i] = c

\* a.localeCompare(b) < 0 for names of lower-case letters
RECURSIVE NameLess(_, _)
NameLess(a, b) ==
    IF a = <<>> THEN b # <<>>
    ELSE IF b = <<>> THEN FALSE
    ELSE IF a[1] = b[1] THEN NameLess(Tail(a), Tail(b))
    ELSE LetterRank(a[1]) < LetterRank(b[1])

\* sort((a, b) => a.name.localeCompare(b.name)) of records with distinct names
RECURSIVE SortByName(_)
SortByName(records) ==
    IF records = {} THEN <<>>
    ELSE LET m == CHOOSE x \in records :
                    \A y \in records : y = x \/ NameLess(x.name, y.name)
         IN  <<m>> \o SortByName(records \ {m})

\* a merge in which the external skill wins
MergeSkillsPreferExternal(locals, externals) ==
    LET all == locals \o externals
        last == SelectSeq(Positions(all),
                          LAMBDA i : \A j \in (i + 1)..Len(all) : all[j].name # all[i].name)
    IN  SortByName({all[i] : i \in Range(last)})

\* mergeSkillsPreferLocal(localSkills, externalSkills): the map holds for each
\* name the record set last, external records being set first
MergeSkillsPreferLocal(locals, externals) ==
    LET all == externals \o locals
        last == SelectSeq(Positions(all),
                          LAMBDA i : \A j \in (i + 1)..Len(all) : all[j].name # all[i].name)
    IN  SortByName({all[i] : i \in Range(last)})

\* a skill of the skills directory and one of the external skills directory
LocalSkill(name) == Skill(name, <<"L">>, <<>>)

ExternalSkill(name) == Skill(name, <<"E">>, <<>>)

\* the lists discoverSkills returns in the model: sorted by name; two folders
\* of the skills directory can declare the same name
LocalLists ==
    {<<>>, <<LocalSkill(<<"a">>)>>, <<LocalSkill(<<"b">>)>>, <<LocalSkill(<<"c">>)>>,
     <<LocalSkill(<<"a">>), LocalSkill(<<"b">>)>>,
     <<LocalSkill(<<"a">>), LocalSkill(<<"c">>)>>,
     <<LocalSkill(<<"b">>), LocalSkill(<<"c">>)>>,
     <<LocalSkill(<<"a">>), LocalSkill(<<"a", "b">>), LocalSkill(<<"b">>)>>,
     <<Skill(<<"a">>, <<"K">>, <<>>), LocalSkill(<<"a">>)>>}

ExternalLists ==
    {<<>>, <<ExternalSkill(<<"a">>)>>, <<ExternalSkill(<<"b">>)>>,
     <<ExternalSkill(<<"c">>)>>,
     <<ExternalSkill(<<"a">>), ExternalSkill(<<"b">>)>>,
     <<ExternalSkill(<<"a">>), ExternalSkill(<<"c">>)>>,
     <<ExternalSkill(<<"b">>), ExternalSkill(<<"c">>)>>,
     <<ExternalSkill(<<"a">>), ExternalSkill(<<"b">>), ExternalSkill(<<"c">>)>>}

MergeInit ==
    /\ ToolsIdle
    /\ AgentIdle
    /\ SetupIdle
    /\ requests = <<>>
    /\ prompt = <<>> /\ skills = <<>> /\ apiKey = FALSE /\ spc = "discovered"
    /\ match = NoValue /\ routerCalls = 0 /\ routerReply = NoValue
    /\ localSkills \in LocalLists
    /\ externalSkills \in ExternalLists
    /\ ranking = NoRanking
    /\ CliIdle

\* runOnePrompt merges the two discovered lists into the catalog
Merge ==
    /\ spc = "discovered"
    /\ skills' = MergeSkillsPreferLocal(localSkills, externalSkills)
    /\ spc' = "merged"
    /\ UNCHANGED <<prompt, apiKey, match, routerCalls, routerReply, catalogVars,
                   toolVars, agentVars, setupVars, requests>>

MergeNext == Merge

MergeSpec == MergeInit /\ [][MergeNext]_vars

(***************************************************************************)
(* external-skills.js: syncExternalSkills.                                 *)
(***************************************************************************)
\* the characters safeDirName keeps: [a-zA-Z0-9._-]
SafeChars == LowerLetters \cup Range(UpperLetters) \cup Digits \cup {".", "_", "-"}

\* .replace(/[^a-zA-Z0-9._-]+/g, "-") followed by .replace(/-+/g, "-"), step
\* one: every other character becomes "-"
Dashed(t) == [i \in 1..Len(t) |-> IF t[i] \in SafeChars THEN t[i] ELSE "-"]

\* step two: every run of "-" becomes one "-"
Squeezed(d) ==
    LET kept == SelectSeq([i \in 1..Len(d) |-> i],
                          LAMBDA i : d[i] # "-" \/ i = 1 \/ d[i - 1] # "-")
    IN  [k \in 1..Len(kept) |-> d[kept[k]]]

\* .replace(/^-|-$/g, ""): a "-" at the start and a "-" at the end are dropped
DropFirstDash(q) == IF q # <<>> /\ q[1] = "-" THEN Tail(q) ELSE q

DropLastDash(q) == IF q # <<>> /\ q[Len(q)] = "-" THEN SubSeq(q, 1, Len(q) - 1) ELSE q

\* safeDirName(s)
SafeDirName(s) == DropLastDash(DropFirstDash(Squeezed(Dashed(Trim(s)))))

\* path.basename(srcDir), srcDir a sequence of path segments below the cache
Basename(srcDir) == srcDir[Len(srcDir)]

\* `${safeDirName(repoKey)}__${base}`
PrefixedName(repoKey, base) == SafeDirName(repoKey) \o <<"_", "_">> \o base

\* the name the while loop ends with: name when it is not used, otherwise the
\* first of repoKey__base__2, repoKey__base__3, ... that is not used
NumberedName(repoKey, base, i) == PrefixedName(repoKey, base) \o <<"_", "_", ToString(i)>>

FreeName(name, repoKey, base, used) ==
    IF name \notin used THEN name
    ELSE NumberedName(repoKey, base,
                      CHOOSE i \in 2..(Cardinality(used) + 2) :
                          /\ NumberedName(repoKey, base, i) \notin used
                          /\ \A j \in 2..(i - 1) : NumberedName(repoKey, base, j) \in used)

\* the destination name of one source directory, given the names used so far
DestName(repoKey, srcDir, used) ==
    LET safe == SafeDirName(Basename(srcDir))
        base == IF safe = <<>> THEN <<"s", "k", "i", "l", "l">> ELSE safe
        name == IF base \in used THEN PrefixedName(repoKey, base) ELSE base
    IN  FreeName(name, repoKey, base, used)

\* destNames: the destination names of the source directories, in order
RECURSIVE DestNames(_, _, _)
DestNames(repoKey, srcDirs, names) ==
    IF Len(names) = Len(srcDirs) THEN names
    ELSE DestNames(repoKey, srcDirs,
                   Append(names, DestName(repoKey, srcDirs[Len(names) + 1], Range(names))))

\* state.repos[repoKey] when it is an array, [] otherwise
PrevNames(state, repoKey) == IF repoKey \in DOMAIN state THEN state[repoKey] ELSE {}

\* the stale directories materializeSkillsFromRepo removes
StaleDirs(ext, prev, next) ==
    {old \in prev \ next : old \in DOMAIN ext /\ old[1] # "."}

\* materializeSkillsFromRepo: the external directory and the sync state after
\* the stale directories of the repo are removed and every skill directory of
\* the repo is removed and copied anew under its destination name
MaterializeSkillsFromRepo(repo, ext, state) ==
    LET names == DestNames(repo.key, repo.dirs, <<>>)
        next == Range(names)
        stale == StaleDirs(ext, PrevNames(state, repo.key), next)
        source == [n \in next |->
                     repo.dirs[CHOOSE i \in 1..Len(names) : names[i] = n]]
    IN  [ext |-> [n \in (DOMAIN ext \ stale) \cup next |->
                    IF n \in next THEN [repo |-> repo.key, src |-> source[n]]
                    ELSE ext[n]],
         state |-> [k \in DOMAIN state \cup {repo.key} |->
                      IF k = repo.key THEN next ELSE state[k]]]

\* a repo of sources.json after ensureSparseRepo: its key and the directories
\* of its cache that hold a SKILL.md
Repo(key, dirs) == [key |-> key, dirs |-> dirs]

ReposP ==
    {Repo(<<"p">>, <<<<"skills", <<"x">>>>>>),
     Repo(<<"p">>, <<<<"skills", <<"y">>>>>>),
     Repo(<<"p">>, <<<<"skills", <<"x">>>>, <<"skills", <<"y", " ", "z">>>>>>),
     Repo(<<"p">>, <<<<"skills", "a", <<"x">>>>, <<"skills", "b", <<"x">>>>>>)}

ReposQ ==
    {Repo(<<"q">>, <<<<"skills", <<"x">>>>>>),
     Repo(<<"q">>, <<<<"skills", <<"z">>>>>>),
     Repo(<<"q">>, <<>>)}

\* the repos of a sync: one repo, or two in either order
SyncConfigs ==
    {<<r>> : r \in ReposP}
        \cup {<<r, s>> : r \in ReposP, s \in ReposQ}
        \cup {<<s, r>> : r \in ReposP, s \in ReposQ}

\* the number of syncs of one external directory the model follows
MaxSyncs == 2

EmptyFunction == [n \in {} |-> {}]

SyncInit ==
    /\ ToolsIdle
    /\ AgentIdle
    /\ SetupIdle
    /\ requests = <<>>
    /\ prompt = <<>> /\ skills = <<>> /\ apiKey = FALSE /\ spc = "idle"
    /\ match = NoValue /\ routerCalls = 0 /\ routerReply = NoValue
    /\ localSkills = <<>> /\ externalSkills = <<>> /\ ranking = NoRanking
    /\ cli = NoCli
    /\ sync \in {[pc |-> "syncing", repos |-> c, i |-> 1, round |-> 1,
                   ext |-> EmptyFunction, state |-> EmptyFunction] : c \in SyncConfigs}

\* one turn of the loop of syncExternalSkills: the skills of the next repo are
\* materialized
SyncRepo ==
    /\ sync.pc = "syncing"
    /\ sync.i <= Len(sync.repos)
    /\ \E r \in {MaterializeSkillsFromRepo(sync.repos[sync.i], sync.ext, sync.state)} :
         sync' = [sync EXCEPT !.ext = r.ext, !.state = r.state, !.i = sync.i + 1]
    /\ UNCHANGED <<toolVars, agentVars, setupVars, requests, prompt, skills, apiKey, spc,
                   match, routerCalls, routerReply, localSkills, externalSkills, ranking,
                   cli>>

\* syncExternalSkills returns after the last repo
SyncReturn ==
    /\ sync.pc = "syncing"
    /\ sync.i > Len(sync.repos)
    /\ sync' = [sync EXCEPT !.pc = "done"]
    /\ UNCHANGED <<toolVars, agentVars, setupVars, requests, prompt, skills, apiKey, spc,
                   match, routerCalls, routerReply, localSkills, externalSkills, ranking,
                   cli>>

\* the next run of the CLI syncs the same external directory again, the repos
\* and their contents having changed
SyncAgain ==
    /\ sync.pc = "done"
    /\ sync.round < MaxSyncs
    /\ \E c \in SyncConfigs :
         sync' = [sync EXCEPT !.pc = "syncing", !.repos = c, !.i = 1,
                              !.round = sync.round + 1]
    /\ UNCHANGED <<toolVars, agentVars, setupVars, requests, prompt, skills, apiKey, spc,
                   match, routerCalls, routerReply, localSkills, externalSkills, ranking,
                   cli>>

SyncNext == SyncRepo \/ SyncReturn \/ SyncAgain

SyncSpec == SyncInit /\ [][SyncNext]_vars

(***************************************************************************)
(* Properties of the selection.                                            *)
(***************************************************************************)
\* the highest heuristic score in the catalog, 0 for an empty catalog
BestScore ==
    LET scores == {HeuristicScore(prompt, skills[i]) : i \in 1..Len(skills)}
    IN  IF scores = {} THEN <<0, 1>>
        ELSE CHOOSE b \in scores : \A o \in scores : RatGeq(b, o)

Shortlist == CandidateSkills(prompt, skills)

Names(q) == {q[i].name : i \in 1..Len(q)}

RouterAnswered == spc \in {"returned", "threw"} /\ routerCalls > 0

\* C5: a selection-stage failure (the router's backend call failing, or a reply
\* that is no usable JSON) makes pickSkillsForPrompt return a result with
\* method heuristic; it never raises an error to its caller
C5_SelectionFailuresFallBack ==
    /\ spc # "threw"
    /\ (RouterAnswered /\ (routerReply.failed \/ RouteWithClaude(routerReply.content) = Null))
         => (spc = "returned" /\ match.matchMethod = "heuristic")

\* C6: when the best score of the catalog is below 0.12, pickSkillsForPrompt
\* returns an empty selection, with or without an API key, and has made no
\* backend call
C6_BelowGateSelectsNothing ==
    (spc # "start" /\ RatLess(BestScore, <<12, 100>>)) =>
        /\ spc = "returned"
        /\ match.selectedSkills = <<>>
        /\ routerCalls = 0

C6_Witness ==
    /\ spc = "returned" /\ apiKey /\ skills # <<>>
    /\ RatLess(<<0, 1>>, BestScore) /\ RatLess(BestScore, <<12, 100>>)
    /\ match.selectedSkills = <<>> /\ match.matchMethod = "none"

\* C7: without an API key pickSkillsForPrompt returns at most one skill, makes
\* no backend call, and for a non-empty shortlist returns exactly its first
\* skill with method heuristic
C7_NoKeyAtMostTopSkill ==
    (spc # "start" /\ ~apiKey) =>
        /\ spc = "returned"
        /\ routerCalls = 0
        /\ Len(match.selectedSkills) <= 1
        /\ Shortlist # <<>> =>
             /\ match.selectedSkills = <<Shortlist[1]>>
             /\ match.matchMethod = "heuristic"

C7_Witness ==
    /\ spc = "returned" /\ ~apiKey /\ Len(Shortlist) >= 2
    /\ match.selectedSkills = <<ReleaseNotes>> /\ match.matchMethod = "heuristic"

\* C8 as stated: the selected set routeWithClaude returns holds only names of
\* the candidates it was given
C8_RouterSelectedOnlyCandidates ==
    (spc = "returned" /\ match.routerDecision # Null) =>
        Range(match.routerDecision.selected) \subseteq Names(Shortlist)

\* C8: the candidates are a whitelist in pickSkillsForPrompt, not in
\* routeWithClaude: with method router the selected skills are exactly the
\* candidates, in shortlist order, that the router's selected set names, so a
\* reply naming only skills outside the candidates selects no skill
C8_CoordinatorFiltersToCandidates ==
    (spc = "returned" /\ match.matchMethod = "router") =>
        /\ match.routerDecision # Null
        /\ \E shortlist \in {Shortlist} :
           \E named \in {Range(match.routerDecision.selected)} :
             /\ \E keep \in SUBSET (1..Len(shortlist)) :
                  /\ match.selectedSkills = [k \in 1..Cardinality(keep) |->
                        shortlist[CHOOSE i \in keep :
                                     Cardinality({j \in keep : j <= i}) = k]]
                  /\ \A i \in 1..Len(shortlist) :
                       i \in keep <=> shortlist[i].name \in named
             /\ (named \cap Names(shortlist) = {}) => match.selectedSkills = <<>>

C8_Witness ==
    /\ spc = "returned" /\ match.matchMethod = "router" /\ Shortlist # <<>>
    /\ Range(match.routerDecision.selected) = {<<"o", "t", "h", "e", "r">>}
    /\ match.selectedSkills = <<>>

(***************************************************************************)
(* Properties of the tool rounds and of the conversation.                  *)
(***************************************************************************)
\* the ids of the tool calls of a response
CallIds(content) ==
    LET calls == ToolUsesOf(content) IN [k \in 1..Len(calls) |-> calls[k].id]

\* the ids the tool results of a sequence carry
ResultIds(rs) == [k \in 1..Len(rs) |-> rs[k].tool_use_id]

\* C11: the user message appended after a tool round holds one tool result per
\* tool call of the assistant message just before it, with the ids of the
\* calls in the order of the calls; the results gathered during a round carry
\* the ids of the first calls of the last assistant message, in order
C11_ResultsAnswerTheCalls ==
    /\ \A i \in ResultMessages :
         /\ messages[i - 1].role = "assistant"
         /\ \A k \in 1..Len(messages[i].content) :
              messages[i].content[k].type = "tool_result"
         /\ ResultIds(messages[i].content) = CallIds(messages[i - 1].content)
    /\ pc = "tools" =>
         ResultIds(results) = SubSeq(CallIds(LastMessage.content), 1, Len(results))

\* C11 witness: a round of two tool calls has ended and its message is sent
C11_Witness ==
    /\ pc = "call"
    /\ Len(messages) = 3
    /\ ResultIds(messages[3].content) = <<"t1", "t2">>
    /\ CallIds(messages[2].content) = <<"t1", "t2">>

\* C12: at most one tool call is pending, and it is the call after those that
\* have ended, so the calls of a response run one at a time in the order of
\* the response; the last call that ended is the one whose result was pushed
\* last; no tool call is pending outside the tool loop, so none is pending
\* when a backend call is issued
C12_ToolCallsOneAtATime ==
    /\ Cardinality(running) <= 1
    /\ running \subseteq {Len(results) + 1}
    /\ pc # "tools" => running = {}
    /\ pc = "tools" /\ results # <<>> =>
         /\ lastCall.name = toolUses[Len(results)].name
         /\ lastCall.input = toolUses[Len(results)].input

\* C12 witness: the second call of a response is pending after the first failed
C12_Witness ==
    /\ pc = "tools"
    /\ running = {2}
    /\ Len(results) = 1
    /\ results[1].is_error

\* C13: the conversation starts with a user message and alternates user and
\* assistant; a user message after the first holds only tool results, one for
\* each tool call of the assistant message before it; a backend call is
\* pending only when the last message is a user message
C13_ConversationAlternates ==
    /\ Len(messages) >= 1
    /\ \A i \in 1..Len(messages) :
         messages[i].role = IF i % 2 = 1 THEN "user" ELSE "assistant"
    /\ \A i \in 2..Len(messages) :
         messages[i].role = "user" =>
             /\ \A k \in 1..Len(messages[i].content) :
                  /\ messages[i].content[k].type = "tool_result"
                  /\ \E c \in 1..Len(messages[i - 1].content) :
                       /\ messages[i - 1].content[c].type = "tool_use"
                       /\ messages[i - 1].content[c].id =
                              messages[i].content[k].tool_use_id
             /\ Len(messages[i].content) = Len(ToolUsesOf(messages[i - 1].content))
    /\ pc \in {"call", "text"} => LastMessage.role = "user"

\* C13 witness: the third backend call of a run is pending after two rounds
C13_Witness ==
    /\ pc = "call"
    /\ Len(messages) = 5
    /\ llmCalls = 2

\* C14: the shortlist of rankSkillsForPrompt is in order of non-increasing
\* score and has at most 8 entries
C14_ShortlistSortedAndCapped ==
    \E top \in {RankSkillsForPrompt(prompt, skills).topCandidates} :
      /\ Len(top) <= 8
      /\ \A i \in 1..(Len(top) - 1) : ~RatLess(top[i].score, top[i + 1].score)

\* C14 witness: ten skills of three different scores all pass the threshold,
\* and pickSkillsForPrompt has ranked them
C14_Witness ==
    /\ spc = "returned"
    /\ Len(skills) = 10
    /\ \E rank \in {RankSkillsForPrompt(prompt, skills)} :
         /\ Len(rank.topCandidates) = 8
         /\ Len(SelectSeq(rank.scored,
                          LAMBDA x : RatGeq(x.score, Threshold(rank.best)))) = 10
         /\ RatLess(rank.topCandidates[8].score, rank.topCandidates[1].score)
         /\ RatLess(HeuristicScore(prompt, skills[1]), HeuristicScore(prompt, skills[2]))

\* the text of the router's reply
ReplyText == ExtractText(routerReply.content)

\* as many "{" as "}" among the pieces a to b of text
Balanced(text, a, b) ==
    Cardinality({i \in a..b : text[i] = "{"}) = Cardinality({i \in a..b : text[i] = "}"})

\* a malformed reply: no "{", or the braces from the first "{" on never
\* balance, or the first balanced object is no valid JSON, or it has no array
\* field selected
MalformedReply(text) ==
    LET opens == {i \in 1..Len(text) : text[i] = "{"}
        start == CHOOSE i \in opens : \A j \in opens : i <= j
        ends == {j \in start..Len(text) : Balanced(text, start, j)}
        end == CHOOSE j \in ends : \A k \in ends : j <= k
        object == JsonParse(SubSeq(text, start, end))
    IN  \/ opens = {}
        \/ ends = {}
        \/ object = Null
        \/ object.selected = Null
        \/ ~object.selected.isArray

RouterReplied == spc = "returned" /\ routerCalls > 0

\* C15: after a malformed router reply routeWithClaude has returned null
\* without throwing, and pickSkillsForPrompt returns exactly the first
\* shortlist skill with method heuristic
C15_MalformedReplyFallsBack ==
    (RouterReplied \/ spc = "threw") /\ ~routerReply.failed /\ MalformedReply(ReplyText) =>
        /\ spc = "returned"
        /\ match.routerDecision = Null
        /\ match.matchMethod = "heuristic"
        /\ match.selectedSkills = <<Shortlist[1]>>

\* C15 witness: the reply's first object is not valid JSON, and the shortlist
\* has two skills
C15_Witness ==
    /\ RouterReplied
    /\ routerReply.content = <<TextBlock(<<"{", "{", SelChangelog, "}", "}">>)>>
    /\ Len(Shortlist) = 2
    /\ match.selectedSkills = <<ReleaseNotes>>
    /\ match.matchMethod = "heuristic"

\* C16: a reply that is not malformed gives a router decision, and with a
\* decision pickSkillsForPrompt returns, with method router, the shortlist
\* skills the decision names, in shortlist order, each once; when the decision
\* names no shortlist skill the selection is empty and the method still router
C16_RouterDecisionFiltersShortlist ==
    /\ RouterReplied /\ ~MalformedReply(ReplyText) => match.routerDecision # Null
    /\ RouterReplied /\ match.routerDecision # Null =>
         \E named \in {Range(match.routerDecision.selected)} :
           /\ match.matchMethod = "router"
           /\ match.selectedSkills = SelectSeq(Shortlist, LAMBDA s : s.name \in named)
           /\ \A i, j \in 1..Len(match.selectedSkills) :
                match.selectedSkills[i] = match.selectedSkills[j] => i = j
           /\ Names(match.selectedSkills) = named \cap Names(Shortlist)

\* C16 witness: the decision names the two shortlist skills in the other order
\* and one of them twice
C16_Witness ==
    /\ RouterReplied
    /\ match.matchMethod = "router"
    /\ Len(match.routerDecision.selected) = 3
    /\ match.routerDecision.selected[1] = Changelog.name
    /\ match.selectedSkills = <<ReleaseNotes, Changelog>>

(***************************************************************************)
(* Properties of write_file and read_file.                                 *)
(***************************************************************************)
\* the absolute path a call's path resolves to
Resolved(call) == PathResolve(RootDirAbs, call.input.path)

\* a write_file call on a path inside the workspace
WriteInside(call) ==
    /\ call.called
    /\ call.name = "write_file"
    /\ call.input.path # Undefined
    /\ InsideWorkspace(call.input.path)

\* C19: write_file with overwrite = false on a path that already exists fails
\* with 'File already exists' and leaves the filesystem as it was; with
\* overwrite true or omitted, write_file on an existing file replaces its
\* content, changes no other file and returns ok
C19_OverwriteFalseKeepsExistingFile ==
    WriteInside(lastCall) =>
        LET p == Resolved(lastCall)
            before == lastCall.before
        IN  /\ (lastCall.input.overwrite = "false"
                  /\ (IsFile(before, p) \/ IsDir(before, p))) =>
                 /\ lastCall.threw
                 /\ lastCall.out = <<"File already exists: ">> \o lastCall.input.path
                 /\ files = before
            /\ (lastCall.input.overwrite \in {"true", "undefined"} /\ IsFile(before, p)) =>
                 /\ ~lastCall.threw
                 /\ lastCall.out = <<"o", "k">>
                 /\ DOMAIN files = DOMAIN before
                 /\ files[p] = Utf8Encode(lastCall.input.content)
                 /\ files[p] # before[p]
                 /\ \A q \in DOMAIN before \ {p} : files[q] = before[q]

\* C19 witness: write_file("x", "b", overwrite = false) on a workspace that has
\* the file x is refused
C19_Witness ==
    /\ WriteInside(lastCall)
    /\ lastCall.input.path = <<"x">>
    /\ lastCall.input.overwrite = "false"
    /\ IsFile(lastCall.before, Resolved(lastCall))
    /\ lastCall.threw
    /\ files = lastCall.before

\* C20: for every path inside the workspace and every content shorter than the
\* truncation threshold, write_file(path, content) followed by read_file(path)
\* returns exactly content
C20_WriteThenReadReturnsContent ==
    (WriteInside(lastCall) /\ readBack.read
       /\ Len(lastCall.input.content) < TruncateMax) =>
        /\ ~readBack.threw
        /\ readBack.out = lastCall.input.content

(***************************************************************************)
(* cli.js: runOnePrompt.  The skills are selected for the prompt, then     *)
(* runAgentOnce is called with the selection.                              *)
(***************************************************************************)
\* the files of the skills directory, which lies in the workspace
SkillFiles(skillList) ==
    [p \in {skillList[i].skillPath : i \in 1..Len(skillList)} |->
       Utf8Encode(The({skillList[i].markdown
                         : i \in {j \in 1..Len(skillList) : skillList[j].skillPath = p}}))]

\* the prompts of a whole run
RunPrompts ==
    {<<"g", "e", "n", "e", "r", "a", "t", "e", " ", "a", " ", "c", "h", "a", "n", "g",
       "e", "l", "o", "g">>,
     <<"D", "e", "p", "l", "o", "y", " ", "t", "h", "e", " ", "a", "p", "p">>}

RunInit ==
    /\ CatalogIdle
    /\ prompt \in RunPrompts
    /\ skills = <<Changelog, Deploy>>
    /\ apiKey \in BOOLEAN
    /\ spc = "start"
    /\ match = NoValue
    /\ routerCalls = 0
    /\ routerReply = NoValue
    /\ files = SkillFiles(skills)
    /\ lastCall = NoCall
    /\ readBack = NoRead
    /\ commands = AgentShellBehaviours
    /\ maxSteps = 1
    /\ enableTools \in BOOLEAN
    /\ pc = "idle" /\ step = 0
    /\ messages = <<>> /\ toolUses = <<>> /\ results = <<>> /\ running = {}
    /\ ret = NoValue /\ error = NoValue
    /\ llmCalls = 0 /\ llmFailures = 0 /\ toolExecs = 0 /\ toolThrows = 0
    /\ toolRounds = 0 /\ atFailure = NoValue
    /\ SetupIdle
    /\ requests = <<>>

\* a runOnePrompt that goes on to the agent without a key
CanRunAgentAlways(key) == TRUE

\* if (!apiKey) return: runOnePrompt stops after routing without a key
CanRunAgent(key) == key

\* runOnePrompt after pickSkillsForPrompt has returned: with an API key it
\* calls runAgentOnce, which builds its first message and its tools
AgentStart ==
    /\ spc = "returned"
    /\ pc = "idle"
    /\ CanRunAgent(apiKey)
    /\ selectedSkills' = match.selectedSkills
    /\ allowedTools' = AllowedFromSkills(match.selectedSkills)
    /\ toolsForRun' = IF enableTools
                      THEN RestrictTools(AllowedFromSkills(match.selectedSkills))
                      ELSE NoValue
    /\ messages' = <<Message("user", prompt)>>
    /\ pc' = EntryPc(enableTools, maxSteps)
    /\ ret' = IF enableTools /\ ~LoopGuard(0, maxSteps) THEN Unexpected ELSE NoValue
    /\ UNCHANGED <<toolVars, maxSteps, enableTools, step, toolUses, results, running,
                   error, llmCalls, llmFailures, toolExecs, toolThrows, toolRounds,
                   atFailure, selVars, requests>>

RunNext ==
    \/ PickStart \/ RouterResponds \/ RouterFails
    \/ AgentStart
    \/ TextOnlyResponse \/ StepResponse \/ BackendFails \/ ToolStart \/ ToolStep

RunSpec == RunInit /\ [][RunNext]_vars

(***************************************************************************)
(* Properties of a whole run.                                              *)
(***************************************************************************)
\* text needle occurs in text hay
Contains(hay, needle) ==
    \E i \in 1..(Len(hay) - Len(needle) + 1) : SubSeq(hay, i, i + Len(needle) - 1) = needle

\* the texts of a content block
BlockTexts(b) ==
    CASE b.type = "text" -> {b.text}
      [] b.type = "tool_result" -> {b.content}
      [] OTHER -> {b.input.path, b.input.content}

\* the texts of the messages of a request: the first message is a text, the
\* later ones are lists of content blocks
MessageTexts(req) ==
    {req.messages[1].content}
        \cup UNION {UNION {BlockTexts(req.messages[j].content[k])
                             : k \in 1..Len(req.messages[j].content)}
                      : j \in 2..Len(req.messages)}

\* a message of the request holds the text
InMessages(req, text) == \E t \in MessageTexts(req) : Contains(t, text)

\* C18: in every backend request of a run, the text of a skill is in no message
\* and in no router request, and it is in the system prompt only for a skill of
\* the final selection
C18_SkillTextOnlyInSystemPromptOfSelected ==
    \A i \in 1..Len(requests) :
      \A k \in 1..Len(skills) :
        /\ ~InMessages(requests[i], skills[k].markdown)
        /\ Contains(requests[i].system, skills[k].markdown) =>
             /\ requests[i].purpose # "router"
             /\ skills[k] \in Range(selectedSkills)

(***************************************************************************)
(* Properties of run_shell in the agent loop.                              *)
(***************************************************************************)
\* a run_shell call is pending whose command outlasts the effective timeout
TimedOutPending ==
    /\ pc = "tools"
    /\ \E k \in running :
         /\ toolUses[k].name = "run_shell"
         /\ \A sh \in commands : sh.duration > ShellTimeout(toolUses[k].input)

\* the results of the round under way end with a failed result
LastResultFailed == results # <<>> /\ results[Len(results)].is_error

\* the last message holds the results of a round, a failed one among them
RoundFailed ==
    /\ LastMessage.role = "user"
    /\ \E i \in 1..Len(LastMessage.content) : LastMessage.content[i].is_error

\* C21: a run_shell call whose command is still running when the timeout
\* expires ends as a failed tool result, and the loop goes on to its next
\* backend call
C21_TimedOutShellNeverBlocks ==
    TimedOutPending ~> (pc = "call" /\ running = {} /\ RoundFailed)

(***************************************************************************)
(* Properties of run_shell.                                                *)
(***************************************************************************)
\* a run_shell call that has reached exec
ShellCall(call) == call.called /\ call.name = "run_shell" /\ call.log # <<>>

\* C22: the timeout run_shell hands to the subprocess lies in [1000, 120000]
\* ms: a numeric timeout_ms is clamped into that range, a missing or
\* non-numeric one gives 30000
C22_ShellTimeoutClamped ==
    ShellCall(lastCall) =>
        LET timeout == lastCall.log[1].timeout
            given == lastCall.input.timeout_ms
        IN  /\ timeout \in 1000..120000
            /\ IF Len(given) # 1 THEN timeout = 30000
               ELSE IF given[1] < 1000 THEN timeout = 1000
               ELSE IF given[1] > 120000 THEN timeout = 120000
               ELSE timeout = given[1]

\* C22 witness: run_shell with timeout_ms = 1 runs its command with a timeout
\* of 1000 ms
C22_Witness ==
    /\ ShellCall(lastCall)
    /\ lastCall.input.timeout_ms = <<1>>
    /\ lastCall.log[1].op = "exec"
    /\ lastCall.log[1].timeout = 1000

(***************************************************************************)
(* Properties of a run with tools disabled.                                *)
(***************************************************************************)
\* C23: with tools disabled runAgentOnce makes exactly one backend call, with
\* no tool set in the request, executes no tool and returns the text of that
\* response, whatever maxSteps is
C23_ToolsDisabledSingleCall ==
    /\ [](~enableTools =>
            /\ pc \in {"text", "done", "failed"}
            /\ llmCalls = (IF pc = "text" THEN 0 ELSE 1)
            /\ Len(requests) = llmCalls
            /\ \A i \in 1..Len(requests) :
                 requests[i].tools = NoValue /\ requests[i].purpose = "agent:text"
            /\ toolExecs = 0 /\ toolRounds = 0 /\ running = {} /\ lastCall = NoCall)
    /\ [][(~enableTools /\ pc' = "done") =>
            (pc = "text" /\ \E r \in Responses : ret' = ExtractText(r))]_vars

\* C23 witness: a run with tools disabled and maxSteps = 2 has returned the two
\* texts of its one response
C23_Witness ==
    /\ ~enableTools
    /\ maxSteps = 2
    /\ pc = "done"
    /\ llmCalls = 1
    /\ ret = <<"a", "\n", "b">>


(***************************************************************************)
(* Properties of the scores and of the ranking.                            *)
(***************************************************************************)
\* the two token sets heuristicScore compares
PromptTokens(promptText) == Range(Tokenize(promptText))

SkillTokens(skill) ==
    Range(Tokenize(skill.name \o <<" ">> \o skill.title \o <<" ">> \o skill.description))

\* the Jaccard overlap term of a prompt and a skill
OverlapTerm(promptText, skill) == Jaccard(PromptTokens(promptText), SkillTokens(skill))

\* the name of the skill appears verbatim in the lower-cased prompt
NameInPrompt(promptText, skill) == Includes(ToLowerCase(promptText), skill.name)

\* rankSkillsForPrompt has ranked a catalog of one skill
RankedOne == ranking.called /\ Len(skills) = 1

\* C24, as stated: for a catalog of one skill whose name appears verbatim in
\* the lower-cased prompt, the score is at least 0.25 plus the Jaccard term
C24_ScoreAtLeastBonusPlusOverlap ==
    (RankedOne /\ NameInPrompt(prompt, skills[1]))
        => RatGeq(ranking.result.scored[1].score,
                  RatAddPct(OverlapTerm(prompt, skills[1]), NameBonus))

\* C24, amended: for a catalog of one skill whose non-empty name appears
\* verbatim in the lower-cased prompt, the score is at least the smaller of 1
\* and 0.25 plus the Jaccard term
C24_ScoreAtLeastClampedBonusPlusOverlap ==
    (RankedOne /\ skills[1].name # <<>> /\ NameInPrompt(prompt, skills[1]))
        => RatGeq(ranking.result.scored[1].score,
                  RatMin1(RatAddPct(OverlapTerm(prompt, skills[1]), NameBonus)))

\* C24 witness: a ranked one-skill catalog whose name is in the prompt and for
\* which 0.25 plus the Jaccard term exceeds 1
C24_Witness ==
    /\ RankedOne
    /\ skills[1].name # <<>>
    /\ NameInPrompt(prompt, skills[1])
    /\ RatLess(<<1, 1>>, RatAddPct(OverlapTerm(prompt, skills[1]), NameBonus))
    /\ ranking.result.scored[1].score = <<1, 1>>


\* the skills of the shortlist rankSkillsForPrompt returned, in order
RankedShortlist ==
    [i \in 1..Len(ranking.result.topCandidates) |-> ranking.result.topCandidates[i].skill]

\* every shortlisted skill is a catalog skill, and none is shortlisted twice
ShortlistWithinCatalog ==
    /\ \A i \in 1..Len(RankedShortlist) : RankedShortlist[i] \in Range(skills)
    /\ \A i, j \in 1..Len(RankedShortlist) :
         i # j => RankedShortlist[i] # RankedShortlist[j]
    /\ Len(RankedShortlist) <= Len(skills)

\* C25, as stated: the shortlist is a strict subset of the catalog: every
\* shortlisted skill is a catalog skill and at least one catalog skill is not
\* shortlisted
C25_ShortlistStrictSubset ==
    ranking.called =>
        /\ ShortlistWithinCatalog
        /\ \E i \in 1..Len(skills) : skills[i] \notin Range(RankedShortlist)

\* C25, amended: the shortlist is a subset of the catalog, which can be the
\* whole catalog: every shortlisted skill is a catalog skill, none is
\* shortlisted twice, and the shortlist is no longer than the catalog
C25_ShortlistSubset == ranking.called => ShortlistWithinCatalog

\* C25 witness: a catalog of one skill has been ranked and its skill is the
\* shortlist, so no catalog skill is left out
C25_Witness ==
    /\ ranking.called
    /\ Len(skills) = 1
    /\ RankedShortlist = skills


(***************************************************************************)
(* Properties of the method pickSkillsForPrompt reports.                   *)
(***************************************************************************)
\* C26: whatever the input, an empty catalog included, the result of
\* pickSkillsForPrompt has a method that is none, heuristic or router, and
\* when the shortlist is empty the method is none and the selection is empty
C26_MethodIsNoneHeuristicOrRouter ==
    spc = "returned" =>
        /\ match.matchMethod \in {"none", "heuristic", "router"}
        /\ Shortlist = <<>> =>
             (match.matchMethod = "none" /\ match.selectedSkills = <<>>)


(***************************************************************************)
(* Properties of the merged catalog.                                       *)
(***************************************************************************)
\* C27: the merged catalog has pairwise distinct names, is sorted by name,
\* holds every name of either input and no other, and for a name that is
\* present in both inputs holds the local skill's record
C27_MergedCatalogPrefersLocal ==
    spc = "merged" =>
        /\ \A i, j \in 1..Len(skills) : i # j => skills[i].name # skills[j].name
        /\ \A i \in 1..(Len(skills) - 1) : NameLess(skills[i].name, skills[i + 1].name)
        /\ Names(skills) = Names(localSkills) \cup Names(externalSkills)
        /\ \A i \in 1..Len(skills) :
             IF skills[i].name \in Names(localSkills)
             THEN skills[i] \in Range(localSkills)
             ELSE skills[i] \in Range(externalSkills)

\* C27 witness: two lists that share a name and each hold a name of their own
\* have been merged, and the shared name has the local record
C27_Witness ==
    /\ spc = "merged"
    /\ Names(localSkills) \cap Names(externalSkills) = {<<"a">>}
    /\ Names(localSkills) \ Names(externalSkills) # {}
    /\ Names(externalSkills) \ Names(localSkills) # {}
    /\ Len(skills) = 3
    /\ skills[1] = LocalSkill(<<"a">>)


(***************************************************************************)
(* Properties of the glob tool.                                            *)
(***************************************************************************)
\* the working directory of a glob call: the given cwd, or the workspace root
GlobCwd(call) ==
    IF call.input.cwd # Undefined /\ call.input.cwd # <<>>
    THEN PathResolve(RootDirAbs, call.input.cwd)
    ELSE RootDirAbs

\* the files the paths of a glob result denote, each resolved against the
\* working directory of the call
ReportedFiles(call) ==
    IF call.out = <<>> THEN {}
    ELSE {PathResolve(GlobCwd(call), line) : line \in Range(Split(call.out, "\n"))}

\* C28: every path the glob tool returns denotes a file under the working
\* directory of the call, whatever the pattern, patterns with ".." segments
\* included, and glob reports no file outside the workspace root
C28_GlobStaysUnderWorkingDirectory ==
    (lastCall.called /\ lastCall.name = "glob" /\ ~lastCall.threw) =>
        \A f \in ReportedFiles(lastCall) :
            /\ IsFile(lastCall.before, f)
            /\ IsAncestor(GlobCwd(lastCall), f)
            /\ IsAncestor(RootDirAbs, f)


\* C29: for an empty catalog or an empty prompt rankSkillsForPrompt returns an
\* empty shortlist, and every scored candidate, one per catalog skill, has
\* score 0
C29_EmptyInputRanksNothing ==
    (ranking.called /\ (skills = <<>> \/ prompt = <<>>)) =>
        /\ ranking.result.topCandidates = <<>>
        /\ Len(ranking.result.scored) = Len(skills)
        /\ \A i \in 1..Len(ranking.result.scored) : ranking.result.scored[i].score[1] = 0
        /\ ranking.result.best[1] = 0

\* C29 witness: a catalog of three skills has been ranked for the empty prompt
C29_Witness ==
    /\ ranking.called
    /\ prompt = <<>>
    /\ Len(skills) = 3
    /\ Len(ranking.result.scored) = 3
    /\ ranking.result.topCandidates = <<>>


(***************************************************************************)
(* The score as a closed formula.                                          *)
(***************************************************************************)
RatEq(a, b) == a[1] * b[2] = b[1] * a[2]

\* a fraction between 0 and 1
InUnitInterval(a) == a[2] > 0 /\ 0 <= a[1] /\ a[1] <= a[2]

\* the bonuses of the formula, in hundredths: 25 when the skill is named and
\* the lower-cased prompt contains the skill's name, 5 per prompt token of
\* length >= 7 that is a skill token, 10 per prompt token of length >= 4 that
\* is a substring of name
FormulaPct(promptText, skill, name, named) ==
    (IF named /\ NameInPrompt(promptText, skill) THEN NameBonus ELSE 0)
      + LongTokenBonus
          * Cardinality({t \in PromptTokens(promptText) :
                           Len(t) >= LongTokenLen /\ t \in SkillTokens(skill)})
      + NameTokenBonus
          * Cardinality({t \in PromptTokens(promptText) :
                           Len(t) >= NameTokenLen /\ named /\ Includes(name, t)})

\* min(1, J + bonuses)
Formula(promptText, skill, name, named) ==
    RatMin1(RatAddPct(OverlapTerm(promptText, skill),
                      FormulaPct(promptText, skill, name, named)))

\* the formula with the skill's name as it is
FormulaAsStated(promptText, skill) == Formula(promptText, skill, skill.name, TRUE)

\* the formula with the lower-cased name, and no name bonus for an empty name
FormulaLowerCased(promptText, skill) ==
    Formula(promptText, skill, ToLowerCase(skill.name), skill.name # <<>>)

\* C30, as stated: the score of every skill equals min(1, J + 0.25 when the
\* lower-cased prompt contains the name + 0.05 per prompt token of length >= 7
\* that is a skill token + 0.10 per prompt token of length >= 4 that is a
\* substring of the skill name), and lies in [0, 1]
C30_ScoreIsFormulaOnName ==
    ranking.called =>
        /\ Len(ranking.result.scored) = Len(skills)
        /\ \A i \in 1..Len(ranking.result.scored) :
             LET e == ranking.result.scored[i]
             IN  /\ RatEq(e.score, FormulaAsStated(prompt, e.skill))
                 /\ InUnitInterval(e.score)

\* C30, amended: the score of every skill equals min(1, J + 0.25 when the name
\* is not empty and the lower-cased prompt contains it + 0.05 per prompt token
\* of length >= 7 that is a skill token + 0.10 per prompt token of length >= 4
\* that is a substring of the lower-cased, non-empty name), and lies in [0, 1]
C30_ScoreIsFormulaOnLowerCasedName ==
    ranking.called =>
        /\ Len(ranking.result.scored) = Len(skills)
        /\ \A i \in 1..Len(ranking.result.scored) :
             LET e == ranking.result.scored[i]
             IN  /\ RatEq(e.score, FormulaLowerCased(prompt, e.skill))
                 /\ InUnitInterval(e.score)

\* C30 witness: a skill whose name has an upper-case letter has been scored,
\* and the formula on the name as it is gives another value than the score
C30_Witness ==
    /\ ranking.called
    /\ \E i \in 1..Len(ranking.result.scored) :
         LET e == ranking.result.scored[i]
         IN  /\ e.skill.name # ToLowerCase(e.skill.name)
             /\ RatEq(e.score, FormulaLowerCased(prompt, e.skill))
             /\ ~RatEq(e.score, FormulaAsStated(prompt, e.skill))
             /\ RatEq(e.score, <<23, 30>>)


(***************************************************************************)
(* The shortlist as a prefix of the sorted list.                           *)
(***************************************************************************)
\* score >= 0.12 and score >= best * 0.6
Qualifies(score, best) ==
    /\ score[1] * 100 >= GateHundredths * score[2]
    /\ score[1] * 10 * best[2] >= RatioTenths * best[1] * score[2]

\* the positions of the sorted list whose candidate qualifies
Qualifying ==
    {i \in 1..Len(ranking.result.scored) :
       Qualifies(ranking.result.scored[i].score, ranking.result.best)}

\* C31: the shortlist is exactly the first min(8, k) entries of the sorted
\* list, k being the number of candidates with score >= max(0.12, best * 0.6):
\* no candidate below the threshold is shortlisted, and a candidate is left
\* out only when it is below the threshold or after the 8th that qualifies
C31_ShortlistIsQualifyingPrefix ==
    ranking.called =>
        LET scored == ranking.result.scored
            top == ranking.result.topCandidates
            k == Cardinality(Qualifying)
        IN  /\ \A i \in 1..Len(scored) : RatGeq(ranking.result.best, scored[i].score)
            /\ Len(top) = Min(MaxCandidates, k)
            /\ top = SubSeq(scored, 1, Len(top))
            /\ \A i \in 1..Len(top) : i \in Qualifying
            /\ \A i \in (Len(top) + 1)..Len(scored) :
                 \/ i \notin Qualifying
                 \/ Cardinality({j \in Qualifying : j < i}) >= MaxCandidates

\* C31 witness: a ranking in which one candidate is shortlisted, another
\* scores above 0 and is left out for being below the threshold
C31_Witness ==
    /\ ranking.called
    /\ Len(ranking.result.topCandidates) >= 1
    /\ \E i \in 1..Len(ranking.result.scored) :
         /\ i > Len(ranking.result.topCandidates)
         /\ ranking.result.scored[i].score[1] > 0
         /\ i \notin Qualifying


(***************************************************************************)
(* Ties and repeated rankings.                                             *)
(***************************************************************************)
\* the place of a skill in the catalog
CatalogPosition(skill) == CHOOSE i \in 1..Len(skills) : skills[i] = skill

\* entries of equal score are in catalog order
TiesInCatalogOrder(q) ==
    \A i, j \in 1..Len(q) :
        (i < j /\ RatEq(q[i].score, q[j].score))
            => CatalogPosition(q[i].skill) < CatalogPosition(q[j].skill)

\* the skill the heuristic path selects from a ranking
HeuristicPick(result) ==
    IF result.topCandidates = <<>> THEN <<>> ELSE <<result.topCandidates[1].skill>>

\* C32: ranking is deterministic and stable: candidates of equal score are in
\* catalog order in the scored list and in the shortlist, and a second ranking
\* of the same prompt and catalog gives the same scored list, the same
\* shortlist and the same heuristic pick
C32_RankingStableAndRepeatable ==
    ranking.called =>
        /\ TiesInCatalogOrder(ranking.result.scored)
        /\ TiesInCatalogOrder(ranking.result.topCandidates)
        /\ ranking.second.called =>
             /\ ranking.second.result.scored = ranking.result.scored
             /\ ranking.second.result.topCandidates = ranking.result.topCandidates
             /\ HeuristicPick(ranking.second.result) = HeuristicPick(ranking.result)

\* C32 witness: ten skills have been ranked twice, the first two of the
\* shortlist have the same score, and a skill of lower score comes before
\* them in the catalog
C32_Witness ==
    /\ ranking.called
    /\ ranking.second.called
    /\ Len(skills) = 10
    /\ Len(ranking.result.topCandidates) >= 2
    /\ RatEq(ranking.result.topCandidates[1].score, ranking.result.topCandidates[2].score)
    /\ CatalogPosition(ranking.result.topCandidates[1].skill) > 1
    /\ RatLess(HeuristicScore(prompt, skills[1]), ranking.result.topCandidates[1].score)


(***************************************************************************)
(* Properties of the tools a run executes.                                 *)
(***************************************************************************)
\* the names of the tools advertised to the backend for the run
Advertised == Range(toolsForRun)

\* C33: every registry tool executed during a run is a member of the tool set
\* advertised to the backend for that run, the result of restrictTools over
\* the selected skills' allowedTools: a call naming a registry tool outside
\* that set is not executed
C33_ExecutedToolsAreAdvertised ==
    (enableTools /\ lastCall.called /\ lastCall.name \in Range(Registry))
        => lastCall.name \in Advertised


(***************************************************************************)
(* Properties of the step limit read from the command line.                *)
(***************************************************************************)
\* C34: runAgentOnce never returns the fall-through text of the tool loop, and
\* the maxSteps main passes is a non-negative integer whatever the
\* --max-steps argument is
C34_NoFallThroughAndMaxStepsIsNatural ==
    /\ ret # Unexpected
    /\ cli.parsed => (cli.maxSteps.kind = "number" /\ cli.maxSteps.n >= 0)


(***************************************************************************)
(* Properties of a run without an API key.                                 *)
(***************************************************************************)
\* C35: without ANTHROPIC_API_KEY a run of one prompt makes no backend call:
\* the selection takes the heuristic path only, no router request is sent,
\* and runAgentOnce is never invoked
C35_NoKeyNoBackendCall ==
    ~apiKey =>
        /\ requests = <<>>
        /\ routerCalls = 0 /\ llmCalls = 0 /\ llmFailures = 0
        /\ spc \in {"start", "returned"}
        /\ spc = "returned" => match.matchMethod \in {"none", "heuristic"}
        /\ pc = "idle" /\ messages = <<>> /\ toolExecs = 0 /\ lastCall = NoCall

\* C35 witness: without a key the selection has returned a skill by the
\* heuristic path, and the run has stopped there
C35_Witness ==
    /\ ~apiKey
    /\ spc = "returned"
    /\ match.matchMethod = "heuristic"
    /\ Len(match.selectedSkills) = 1
    /\ pc = "idle"
    /\ requests = <<>>


(***************************************************************************)
(* Properties of the external skills sync.                                 *)
(***************************************************************************)
\* C36: materializing the skills of one repo never deletes or overwrites a
\* skill directory materialized for another repo: after the sync, every
\* destination name recorded in the sync state for a repo is a directory of
\* the external skills directory that holds that repo's skill
C36_RecordedNamesHoldTheirRepoSkill ==
    sync.pc = "done" =>
        \A key \in DOMAIN sync.state :
            \A name \in sync.state[key] :
                /\ name \in DOMAIN sync.ext
                /\ sync.ext[name].repo = key

====
